---- MODULE Spec2Model ----
(***************************************************************************)
(* A model of the ateam agent-orchestration layer: SharedState, BaseTool,  *)
(* the two Agent variants (ateam.agent.Agent over the responses API and    *)
(* ateam.chat.agent.Agent over the chat.completions API), their run loops  *)
(* and the agent-as-tool adapter.                                          *)
(*                                                                         *)
(* Python values are encoded as follows.                                   *)
(*   - An optional value (None, NOT_GIVEN) is a sequence: <<>> when absent *)
(*     and <<x>> when present.                                             *)
(*   - A text is a sequence of fragments, so that concatenation and        *)
(*     str.startswith are computed and not assumed.                        *)
(*   - A value returned by run is [parsed |-> BOOLEAN, text |-> text]: a   *)
(*     plain str, or a pydantic object with one field `answer`.            *)
(*   - An object reference (a SharedState) is its index in `store`.        *)
(***************************************************************************)
EXTENDS Integers, Sequences, FiniteSets, TLC

VARIABLES
    agents,        \* the Agent objects constructed so far, in order
    class_state,   \* tool class -> its class attribute _shared_state (0: None)
    store,         \* the SharedState objects created so far: their `data`
    instances,     \* the tool instances created by direct instantiation
    lastOp,        \* the last constructor / SharedState call and how it ended
    stack,         \* the active run calls, outermost first
    lastRun        \* the run call that ended in the last step, as it was at its end

vars == <<agents, class_state, store, instances, lastOp, stack, lastRun>>

(***************************************************************************)
(* Bounds of the model.                                                    *)
(***************************************************************************)
MaxAgents == 2       \* Agent constructions per behaviour (SpecSetup)
MaxInstances == 2    \* direct tool instantiations per behaviour (SpecSetup)
MaxItems == 2        \* output items / tool calls carried by one response
MaxBudget == 2       \* largest max_tool_calls of the outer agent (Spec)
MaxInnerBudget == 1  \* largest max_tool_calls of the agent used as a tool (Spec)
MaxDepth == 3        \* deepest nesting of run calls (reached only by cyclic compositions)

(***************************************************************************)
(* Options, texts and values.                                              *)
(***************************************************************************)
None == <<>>
NOT_GIVEN == <<>>
Some(x) == <<x>>

\* str.startswith
startswith(s, prefix) ==
    /\ Len(prefix) <= Len(s)
    /\ SubSeq(s, 1, Len(prefix)) = prefix

Chars_o == <<"o">>
Chars_gemini == <<"g", "e", "m", "i", "n", "i", "-">>

GptModel == <<"g", "p", "t", "-", "4">>
OModel == <<"o", "1">>
GeminiModel == <<"g", "e", "m", "i", "n", "i", "-", "2">>

Models == {GptModel, OModel, GeminiModel}

StrValue(t) == [parsed |-> FALSE, text |-> t]
ObjValue(t) == [parsed |-> TRUE, text |-> t]

\* str(x): a str is itself, a pydantic object prints as answer='...'
Str(v) == IF v.parsed THEN <<"answer='">> \o v.text \o <<"'">> ELSE v.text

(***************************************************************************)
(* SharedState (BaseTool.py).  A key is [type, v]; only type "str" passes  *)
(* isinstance(key, str).                                                   *)
(***************************************************************************)
StrKey(k) == [type |-> "str", v |-> k]
IntKey(k) == [type |-> "int", v |-> k]
NoneKey == [type |-> "NoneType", v |-> ""]

Keys == {StrKey("counter"), IntKey("7")}
Values == {1, 2}

EmptyData == [k \in {} |-> 0]

\* a variant that accepts every key
isinstance_str_Any(key) == TRUE

isinstance_str(key) == key.type = "str"

\* a variant that forgets the other keys
DataSet_Replace(data, key, value) == [k \in {key} |-> value]

\* SharedState.set on a valid key: self.data[key] = value
DataSet(data, key, value) ==
    [k \in (DOMAIN data) \cup {key} |-> IF k = key THEN value ELSE data[k]]

\* SharedState.get on a valid key: self.data.get(key, default)
DataGet(data, key, default) ==
    IF key \in DOMAIN data THEN Some(data[key]) ELSE default

(***************************************************************************)
(* Tool classes.  A plain tool class is user code with validated fields    *)
(* and a run method; as_tool(agent) makes the class AgentTool whose single *)
(* field is `input` and whose run calls agent.run(input).                  *)
(***************************************************************************)
PlainTool(n) == [name |-> n, agent |-> 0]
SimpleTool == PlainTool("SimpleTool")
CalculatorTool == PlainTool("CalculatorTool")

as_tool(a) == [name |-> "AgentTool", agent |-> a]

MockTool == PlainTool("MockTool")

\* a tool whose run counts its executions in the SharedState of its class
CounterTool == PlainTool("CounterTool")

PlainTools == {SimpleTool, CalculatorTool}
WriterTools == {CounterTool}
ToolClasses ==
    PlainTools \cup {MockTool} \cup WriterTools \cup {as_tool(a) : a \in 1..(MaxAgents + 1)}

\* Python values passed as keyword arguments: [type, v], v being the value's text
PyStr(t) == [type |-> "str", v |-> t]
PyInt(t) == [type |-> "int", v |-> t]

\* the validated fields a tool class declares: name, annotation, default (None: required)
Field(name, type, default) == [name |-> name, type |-> type, default |-> default]

Fields(cls) ==
    IF cls.agent # 0 THEN <<Field("input", "str", None)>>
    ELSE IF cls \in {SimpleTool, CounterTool} THEN <<Field("message", "str", None)>>
    ELSE IF cls = CalculatorTool
         THEN <<Field("operation", "str", None), Field("a", "int", None), Field("b", "int", None)>>
    ELSE IF cls = MockTool
         THEN <<Field("name", "str", None), Field("value", "int", Some(PyInt("42")))>>
    ELSE <<>>

FieldNames(cls) == {Fields(cls)[i].name : i \in 1..Len(Fields(cls))}

\* a variant that checks only that the required fields are given
Validates_PresenceOnly(cls, kwargs) ==
    \A i \in 1..Len(Fields(cls)) :
        Fields(cls)[i].name \in DOMAIN kwargs \/ Fields(cls)[i].default # None

\* pydantic's validation of the keyword arguments: every required field is given and
\* every field given has a value of the annotated type
Validates(cls, kwargs) ==
    \A i \in 1..Len(Fields(cls)) :
        LET f == Fields(cls)[i]
        IN  IF f.name \in DOMAIN kwargs THEN kwargs[f.name].type = f.type
            ELSE f.default # None

\* the fields of the instance validation yields: the values given, defaults elsewhere
Validated(cls, kwargs) ==
    [n \in FieldNames(cls) |->
        IF n \in DOMAIN kwargs THEN kwargs[n]
        ELSE Fields(cls)[CHOOSE i \in 1..Len(Fields(cls)) : Fields(cls)[i].name = n].default[1]]

NoKwargs == [n \in {} |-> PyStr("")]

\* keyword arguments that pass the validation of cls, one str or int per field
GoodKwargs(cls) ==
    [n \in FieldNames(cls) |->
        LET f == Fields(cls)[CHOOSE i \in 1..Len(Fields(cls)) : Fields(cls)[i].name = n]
        IN  IF f.type = "str" THEN PyStr("test") ELSE PyInt("100")]

\* a variant whose descriptors do not name their class
pydantic_function_tool_Anonymous(tool) == [type |-> "function", name |-> "", agent |-> 0]

\* openai.pydantic_function_tool(tool): the descriptor the model is shown
pydantic_function_tool(tool) == [type |-> "function", name |-> tool.name, agent |-> tool.agent]

(***************************************************************************)
(* Agent.__init__ (agent.py) and BaseAgent.__init__ (base_agent.py).       *)
(***************************************************************************)
Variants == {"responses", "chat"}

\* base_agent.py: the guard of BaseAgent.__init__; agent.py has none
ConfigError(variant, model, tools, output_format) ==
    /\ variant = "chat"
    /\ startswith(model, Chars_gemini)
    /\ output_format # NOT_GIVEN
    /\ tools # None

\* a variant that attaches the effort whatever the model
ReasoningDict_AnyModel(model, reasoning) ==
    IF reasoning # None THEN Some(reasoning[1]) ELSE NOT_GIVEN

\* {'effort': reasoning} if reasoning and model.startswith('o') else NOT_GIVEN
ReasoningDict(model, reasoning) ==
    IF reasoning # None /\ startswith(model, Chars_o) THEN Some(reasoning[1]) ELSE NOT_GIVEN

\* the object state __init__ leaves, with its SharedState at index sid
NewAgent(variant, model, tools, max_tool_calls, output_format, reasoning, verbose, sid) ==
    LET roster == IF tools = None THEN <<>> ELSE tools[1]
    IN  [ variant |-> variant,
          model |-> model,
          tools |-> roster,
          max_tool_calls |-> max_tool_calls,
          output_format |-> output_format,
          reasoning |-> ReasoningDict(model, reasoning),
          verbose |-> verbose,
          shared_state |-> sid,
          openai_tools_schema |-> [i \in 1..Len(roster) |-> pydantic_function_tool(roster[i])] ]

\* a variant that binds only the first class of the roster
BindRoster_FirstOnly(cs, roster, sid) ==
    [c \in DOMAIN cs |-> IF roster # <<>> /\ roster[1] = c THEN sid ELSE cs[c]]

\* a variant that keeps the binding a class already has
BindRoster_KeepFirst(cs, roster, sid) ==
    [c \in DOMAIN cs |->
        IF cs[c] = 0 /\ \E i \in 1..Len(roster) : roster[i] = c THEN sid ELSE cs[c]]

\* for tool in self.tools: tool._shared_state = self.shared_state
BindRoster(cs, roster, sid) ==
    [c \in DOMAIN cs |-> IF \E i \in 1..Len(roster) : roster[i] = c THEN sid ELSE cs[c]]

\* the rosters a caller may pass: tools omitted, an empty list, lists of classes
Rosters ==
    {None, Some(<<>>), Some(<<SimpleTool>>), Some(<<SimpleTool, CalculatorTool>>)}
        \cup {Some(<<as_tool(a), SimpleTool>>) : a \in 1..Len(agents)}

\* the rosters of plain tool classes
PlainRosters == {None, Some(<<SimpleTool>>), Some(<<SimpleTool, CalculatorTool>>)}

Construct(variant, model, tools, max_tool_calls, output_format, reasoning, verbose) ==
    /\ stack = <<>>
    /\ Len(agents) < MaxAgents
    /\ IF ConfigError(variant, model, tools, output_format)
       THEN /\ lastOp' = [op |-> "Agent", error |-> "ValueError", agent |-> 0,
                          variant |-> variant, model |-> model, tools |-> tools,
                          output_format |-> output_format, reasoning |-> reasoning]
            /\ UNCHANGED <<agents, class_state, store>>
       ELSE LET sid == Len(store) + 1
                a == NewAgent(variant, model, tools, max_tool_calls, output_format,
                              reasoning, verbose, sid)
            IN  /\ store' = Append(store, EmptyData)
                /\ agents' = Append(agents, a)
                /\ class_state' = BindRoster(class_state, a.tools, sid)
                /\ lastOp' = [op |-> "Agent", error |-> "", agent |-> Len(agents) + 1,
                              variant |-> variant, model |-> model, tools |-> tools,
                              output_format |-> output_format, reasoning |-> reasoning]
    /\ UNCHANGED <<instances, stack, lastRun>>

\* the defaults of __init__'s parameters
DefaultModel == GptModel
DefaultMaxToolCalls == 11

\* a construction with every parameter of the configuration chosen by the caller
ConstructAgent ==
    \E variant \in Variants, model \in Models, tools \in Rosters,
       output_format \in {NOT_GIVEN, Some("Output")}, reasoning \in {None, Some("high")} :
        Construct(variant, model, tools, DefaultMaxToolCalls, output_format, reasoning, FALSE)

\* a construction that passes a roster and leaves the other parameters at their defaults
ConstructWithTools ==
    \E variant \in Variants, tools \in PlainRosters :
        Construct(variant, DefaultModel, tools, DefaultMaxToolCalls, NOT_GIVEN, None, FALSE)

(***************************************************************************)
(* BaseTool.__init__: bind a fresh SharedState to an unbound class, then   *)
(* let pydantic validate the fields.                                       *)
(***************************************************************************)
\* a variant that gives every new instance a SharedState of its own
CreateTool_AlwaysFresh(cls, kwargs) ==
    /\ stack = <<>>
    /\ Len(instances) < MaxInstances
    /\ store' = Append(store, EmptyData)
    /\ class_state' = [class_state EXCEPT ![cls] = Len(store) + 1]
    /\ IF Validates(cls, kwargs)
       THEN /\ instances' = Append(instances, [cls |-> cls, born |-> Len(agents),
                                                fields |-> Validated(cls, kwargs)])
            /\ lastOp' = [op |-> "Tool", error |-> "", cls |-> cls, kwargs |-> kwargs]
       ELSE /\ instances' = instances
            /\ lastOp' = [op |-> "Tool", error |-> "ValidationError", cls |-> cls,
                          kwargs |-> kwargs]
    /\ UNCHANGED <<agents, stack, lastRun>>

CreateTool(cls, kwargs) ==
    /\ stack = <<>>
    /\ Len(instances) < MaxInstances
    /\ IF class_state[cls] = 0
       THEN /\ store' = Append(store, EmptyData)
            /\ class_state' = [class_state EXCEPT ![cls] = Len(store) + 1]
       ELSE UNCHANGED <<store, class_state>>
    /\ IF Validates(cls, kwargs)
       THEN /\ instances' = Append(instances, [cls |-> cls, born |-> Len(agents),
                                                fields |-> Validated(cls, kwargs)])
            /\ lastOp' = [op |-> "Tool", error |-> "", cls |-> cls, kwargs |-> kwargs]
       ELSE /\ instances' = instances
            /\ lastOp' = [op |-> "Tool", error |-> "ValidationError", cls |-> cls,
                          kwargs |-> kwargs]
    /\ UNCHANGED <<agents, stack, lastRun>>

\* an instantiation with every field given, or with none
InstantiateTool ==
    \E cls \in PlainTools :
        \E kwargs \in {GoodKwargs(cls), NoKwargs} : CreateTool(cls, kwargs)

\* instance._shared_state: the instance has no attribute of its own, the class's is read
InstanceState(i) == class_state[instances[i].cls]

\* the SharedState references a caller can hold: through an instance or an agent
Holders ==
    {[via |-> "tool", id |-> i, sid |-> InstanceState(i)] : i \in 1..Len(instances)}
        \cup {[via |-> "agent", id |-> a, sid |-> agents[a].shared_state] : a \in 1..Len(agents)}

\* SharedState.set
set(h, key, value) ==
    /\ stack = <<>>
    /\ h.sid # 0
    /\ IF isinstance_str(key)
       THEN /\ store' = [store EXCEPT ![h.sid] = DataSet(store[h.sid], key, value)]
            /\ lastOp' = [op |-> "set", error |-> "", holder |-> h, key |-> key, value |-> value]
       ELSE /\ store' = store
            /\ lastOp' = [op |-> "set", error |-> "ValueError", key |-> key]
    /\ UNCHANGED <<agents, class_state, instances, stack, lastRun>>

\* SharedState.get
get(h, key, default) ==
    /\ stack = <<>>
    /\ h.sid # 0
    /\ IF isinstance_str(key)
       THEN lastOp' = [op |-> "get", error |-> "", holder |-> h, key |-> key,
                       default |-> default,
                       result |-> DataGet(store[h.sid], key, default)]
       ELSE lastOp' = [op |-> "get", error |-> "ValueError", key |-> key]
    /\ UNCHANGED <<agents, class_state, store, instances, stack, lastRun>>

StateSet == \E h \in Holders, key \in Keys, value \in Values : set(h, key, value)

\* get(key), the default left at None
StateGet == \E h \in Holders, key \in Keys : get(h, key, None)

NoRun == [kind |-> "none"]

InitSetup ==
    /\ agents = <<>>
    /\ class_state = [c \in ToolClasses |-> 0]
    /\ store = <<>>
    /\ instances = <<>>
    /\ lastOp = [op |-> "none", error |-> ""]
    /\ stack = <<>>
    /\ lastRun = NoRun

NextSetup == ConstructWithTools \/ InstantiateTool \/ StateSet \/ StateGet

SpecSetup == InitSetup /\ [][NextSetup]_vars

NextConfig == ConstructAgent

SpecConfig == InitSetup /\ [][NextConfig]_vars

(***************************************************************************)
(* SharedState on its own: an agent with two tool classes and one instance *)
(* of each, and a second agent without tools, as in the shared-state tests;*)
(* then any sequence of set and get through any of the references.         *)
(***************************************************************************)
StoreKeys == {StrKey("counter"), StrKey("shared_data"), IntKey("7"), NoneKey}

InitStore ==
    /\ agents = << NewAgent("chat", DefaultModel, Some(<<SimpleTool, CalculatorTool>>),
                            DefaultMaxToolCalls, NOT_GIVEN, None, FALSE, 1),
                   NewAgent("responses", DefaultModel, None,
                            DefaultMaxToolCalls, NOT_GIVEN, None, FALSE, 2) >>
    /\ class_state = BindRoster([c \in ToolClasses |-> 0], <<SimpleTool, CalculatorTool>>, 1)
    /\ store = <<EmptyData, EmptyData>>
    /\ instances = << [cls |-> SimpleTool, born |-> 2,
                       fields |-> Validated(SimpleTool, GoodKwargs(SimpleTool))],
                      [cls |-> CalculatorTool, born |-> 2,
                       fields |-> Validated(CalculatorTool, GoodKwargs(CalculatorTool))] >>
    /\ lastOp = [op |-> "none", error |-> ""]
    /\ stack = <<>>
    /\ lastRun = NoRun

StoreSet == \E h \in Holders, key \in StoreKeys, value \in Values : set(h, key, value)

StoreGet ==
    \E h \in Holders, key \in StoreKeys, default \in {None, Some(0)} : get(h, key, default)

NextStore == StoreSet \/ StoreGet

SpecStore == InitStore /\ [][NextStore]_vars

(***************************************************************************)
(* Tool instances on their own: MockTool (a required str field `name`, an  *)
(* int field `value` with default 42) is instantiated with any keyword     *)
(* arguments, and the run method of an instance is called.                 *)
(***************************************************************************)
KwargValues == {PyStr("test"), PyStr("not_an_int"), PyInt("100"), PyInt("7")}

KwargsOf(cls) == UNION {[names -> KwargValues] : names \in SUBSET FieldNames(cls)}

InstantiateMockTool == \E kwargs \in KwargsOf(MockTool) : CreateTool(MockTool, kwargs)

\* MockTool.run: f"MockTool executed with name={self.name}, value={self.value}"
MockRun(fields) ==
    StrValue(<<"MockTool executed with name=", fields["name"].v, ", value=", fields["value"].v>>)

\* tool.run() on an instance created earlier
ToolRun(i) ==
    /\ stack = <<>>
    /\ i \in 1..Len(instances)
    /\ instances[i].cls = MockTool
    /\ lastOp' = [op |-> "run", error |-> "", instance |-> i,
                  result |-> MockRun(instances[i].fields)]
    /\ UNCHANGED <<agents, class_state, store, instances, stack, lastRun>>

RunInstance == \E i \in 1..Len(instances) : ToolRun(i)

NextTool == InstantiateMockTool \/ RunInstance

SpecTool == InitSetup /\ [][NextTool]_vars

(***************************************************************************)
(* The conversation (`messages`) and the responses of the remote model.    *)
(***************************************************************************)
NoTool == PlainTool("")

Entry(type, call_id, name, content, tool_calls) ==
    [type |-> type, call_id |-> call_id, name |-> name, content |-> content,
     tool_calls |-> tool_calls]

RoleText == <<"You are a helpful assistant.">>

\* messages = [{"role": "system", ...}, {"role": "user", ...}]
InitialMessages(role, msg) ==
    << Entry("system", 0, NoTool, role, <<>>), Entry("user", 0, NoTool, msg, <<>>) >>

\* one item of response.output (responses API)
Item(type, call_id, tool, arguments, text, parsed) ==
    [type |-> type, call_id |-> call_id, tool |-> tool, arguments |-> arguments,
     text |-> text, parsed |-> parsed]

MessageItem(text, parsed) == Item("message", 0, NoTool, <<>>, text, parsed)
FunctionCallItem(tool, arguments) == Item("function_call", 0, tool, arguments, <<>>, None)
ReasoningItem == Item("reasoning", 0, NoTool, <<>>, <<>>, None)

\* one tool call of choice.message.tool_calls (chat API)
ToolCall(id, tool, arguments) == [id |-> id, tool |-> tool, arguments |-> arguments]

\* one element of response.choices (chat API): its message
Choice(tool_calls, content, parsed) ==
    [tool_calls |-> tool_calls, content |-> content, parsed |-> parsed]

\* the arguments the model passes to a tool: one field, message or input
Arguments(tool) == IF tool.agent = 0 THEN <<"msg">> ELSE <<"order">>

\* the texts and parsed objects the model can answer with
AnswerTexts == {<<"ok">>}
ParsedAnswers(a) ==
    IF a.output_format # NOT_GIVEN
    THEN {[text |-> <<"{ok}">>, parsed |-> Some(ObjValue(<<"ok">>))]}
    ELSE {}

RosterSet(a) == {a.tools[i] : i \in 1..Len(a.tools)}

\* the items a response of the responses API can hold for agent a
ItemKinds(a) ==
    {MessageItem(t, None) : t \in AnswerTexts}
        \cup {MessageItem(p.text, p.parsed) : p \in ParsedAnswers(a)}
        \cup {FunctionCallItem(tool, Arguments(tool)) : tool \in RosterSet(a)}
        \cup {ReasoningItem}

\* the call identifiers of the n-th response of a run: the remote side makes them unique
CallId(n, i) == 10 * n + i

StampOutput(seq, n) ==
    [i \in 1..Len(seq) |->
        IF seq[i].type = "function_call" THEN [seq[i] EXCEPT !.call_id = CallId(n, i)]
        ELSE seq[i]]

SeqsUpTo(S, n) == UNION {[1..k -> S] : k \in 0..n}

\* the responses client.responses.parse can return to agent a at its n-th call
ResponsesOf(a, n) ==
    {[failed |-> FALSE, output |-> StampOutput(seq, n)] : seq \in SeqsUpTo(ItemKinds(a), MaxItems)}

\* the choices a response of the chat API can hold for agent a; `size` is the number
\* of tool calls the choice carries (1 for a choice without tool calls)
ChoiceKinds(a) ==
    {[size |-> Len(tcs), choice |-> Choice(tcs, <<>>, None)] :
        tcs \in {[i \in 1..Len(s) |-> ToolCall(0, s[i], Arguments(s[i]))] :
                    s \in SeqsUpTo(RosterSet(a), MaxItems) \ {<<>>}}}
        \cup {[size |-> 1, choice |-> Choice(<<ToolCall(0, tool, Arguments(tool))>>, t, None)] :
                    tool \in RosterSet(a) \cap PlainTools, t \in AnswerTexts}
        \cup {[size |-> 1, choice |-> Choice(<<>>, t, None)] : t \in AnswerTexts}
        \cup {[size |-> 1, choice |-> Choice(<<>>, p.text, p.parsed)] : p \in ParsedAnswers(a)}
        \cup {[size |-> 1, choice |-> Choice(<<>>, <<>>, None)]}

RECURSIVE TotalSize(_)
TotalSize(seq) == IF seq = <<>> THEN 0 ELSE Head(seq).size + TotalSize(Tail(seq))

RECURSIVE StampChoices(_, _, _)
StampChoices(seq, n, base) ==
    IF seq = <<>> THEN <<>>
    ELSE LET c == Head(seq).choice
             tcs == [i \in 1..Len(c.tool_calls) |->
                        [c.tool_calls[i] EXCEPT !.id = CallId(n, base + i)]]
         IN  <<[c EXCEPT !.tool_calls = tcs]>>
                 \o StampChoices(Tail(seq), n, base + Len(c.tool_calls))

\* the responses client.beta.chat.completions.parse can return to agent a at its n-th call
ChatResponsesOf(a, n) ==
    {[failed |-> FALSE, choices |-> StampChoices(seq, n, 0)] :
        seq \in {s \in SeqsUpTo(ChoiceKinds(a), MaxItems) : TotalSize(s) <= MaxItems}}

\* the remote call raised: what the script of a run records for it
Failure == [failed |-> TRUE]

(***************************************************************************)
(* response.output_text and response.output_parsed of the responses API.   *)
(***************************************************************************)
RECURSIVE output_text(_)
output_text(output) ==
    IF output = <<>> THEN <<>>
    ELSE (IF Head(output).type = "message" THEN Head(output).text ELSE <<>>)
             \o output_text(Tail(output))

RECURSIVE output_parsed(_)
output_parsed(output) ==
    IF output = <<>> THEN None
    ELSE IF Head(output).type = "message" /\ Head(output).parsed # None
         THEN Head(output).parsed
         ELSE output_parsed(Tail(output))

\* a variant that forgets the parsed object
OrText_TextOnly(parsed, text) == StrValue(text)

\* Python's `parsed or text`: a pydantic object is truthy, None is not
OrText(parsed, text) == IF parsed # None THEN parsed[1] ELSE StrValue(text)

(***************************************************************************)
(* Tool execution.                                                         *)
(***************************************************************************)
\* SimpleTool.run: f"SimpleTool processed: {self.message}"
PlainRun(tool, arguments) == StrValue(<<tool.name, " processed: ">> \o arguments)

\* self._shared_state.get("counter", 0)
Count(data) == DataGet(data, StrKey("counter"), Some(0))[1]

\* a variant that stores into the SharedState of the agent that runs the tool
StoreAfterRun_AgentState(tool) ==
    IF tool \in WriterTools
    THEN LET sid == agents[stack[Len(stack)].agent].shared_state
         IN  [store EXCEPT ![sid] = DataSet(@, StrKey("counter"), Count(@) + 1)]
    ELSE store

\* the SharedStates after tool.run(): CounterTool.run does
\* self._shared_state.set("counter", self._shared_state.get("counter", 0) + 1)
StoreAfterRun(tool) ==
    IF tool \in WriterTools
    THEN [store EXCEPT ![class_state[tool]] = DataSet(@, StrKey("counter"), Count(@) + 1)]
    ELSE store

ErrorString == <<"Error: OpenAI API call failed">>
Sentinel(n) == <<"An answer could not be provided after ", ToString(n), " tool calls.">>

(***************************************************************************)
(* One activation of run.                                                  *)
(*   pc = "loop":       at the head of `for _ in range(self.max_tool_calls)`*)
(*   pc = "output":     iterating response.output / response.choices       *)
(*   pc = "tool_calls": iterating the tool calls of one choice (chat)      *)
(*   pc = "run_tool":   inside the run of an agent tool                    *)
(* script and nexec record what the activation did: the requests it sent   *)
(* with the responses it got, and the tools it started; writes holds what  *)
(* its tools stored in a SharedState, printed the lines it wrote to        *)
(* standard output.                                                        *)
(***************************************************************************)
\* a variant in which a nested run goes on counting where its caller stands
Frame_SharedCount(a, call_id, msg) ==
    [ agent |-> a,
      call_id |-> call_id,
      messages |-> InitialMessages(RoleText, msg),
      iter |-> IF stack = <<>> THEN 0 ELSE stack[Len(stack)].iter,
      pc |-> "loop",
      output |-> <<>>,
      tool_calls |-> <<>>,
      script |-> <<>>,
      nexec |-> 0,
      writes |-> <<>>,
      printed |-> <<>> ]

\* a variant in which a nested run goes on with the conversation of its caller
Frame_KeepConversation(a, call_id, msg) ==
    [ agent |-> a,
      call_id |-> call_id,
      messages |-> IF stack = <<>> THEN InitialMessages(RoleText, msg)
                   ELSE Append(stack[Len(stack)].messages, Entry("user", 0, NoTool, msg, <<>>)),
      iter |-> 0,
      pc |-> "loop",
      output |-> <<>>,
      tool_calls |-> <<>>,
      script |-> <<>>,
      nexec |-> 0,
      writes |-> <<>>,
      printed |-> <<>> ]

Frame(a, call_id, msg) ==
    [ agent |-> a,
      call_id |-> call_id,
      messages |-> InitialMessages(RoleText, msg),
      iter |-> 0,
      pc |-> "loop",
      output |-> <<>>,
      tool_calls |-> <<>>,
      script |-> <<>>,
      nexec |-> 0,
      writes |-> <<>>,
      printed |-> <<>> ]

Top == stack[Len(stack)]
Self == agents[Top.agent]

\* a variant whose loop runs once more
InRange_OffByOne(f) == f.iter <= agents[f.agent].max_tool_calls

\* range(self.max_tool_calls) still has an element
InRange(f) == f.iter < agents[f.agent].max_tool_calls

\* the keyword arguments of self.client.responses.parse; sampling: temperature and top_p
\* are passed, and not NOT_GIVEN
ResponsesRequest(a, messages) ==
    [ input |-> messages,
      model |-> a.model,
      tools |-> a.openai_tools_schema,
      tool_choice |-> "auto",
      store |-> Some(FALSE),
      text_format |-> a.output_format,
      reasoning |-> a.reasoning,
      sampling |-> ~startswith(a.model, Chars_o) ]

\* the kwargs of self.client.beta.chat.completions.parse; input is its "messages",
\* text_format its "response_format", reasoning its "reasoning_effort"
ChatRequest(a, messages) ==
    [ input |-> messages,
      model |-> a.model,
      tools |-> a.openai_tools_schema,
      tool_choice |-> "auto",
      store |-> IF startswith(a.model, Chars_gemini) THEN NOT_GIVEN ELSE Some(FALSE),
      text_format |-> a.output_format,
      reasoning |-> IF a.reasoning # NOT_GIVEN THEN Some(a.reasoning[1]) ELSE NOT_GIVEN,
      sampling |-> ~startswith(a.model, Chars_o) ]

Request(a, messages) ==
    IF a.variant = "responses" THEN ResponsesRequest(a, messages) ELSE ChatRequest(a, messages)

\* the remote call is issued with the conversation as it stands
Sent(f, r) ==
    [f EXCEPT !.iter = f.iter + 1,
              !.script = Append(f.script, [sent |-> Len(f.messages),
                                           request |-> Request(agents[f.agent], f.messages),
                                           response |-> r])]

\* a variant in which printing uses up an iteration
Verbose_Counted(f, line) ==
    IF agents[f.agent].verbose
    THEN [f EXCEPT !.printed = Append(f.printed, line), !.iter = f.iter + 1]
    ELSE f

\* if self.verbose: print(line)
Verbose(f, line) ==
    IF agents[f.agent].verbose THEN [f EXCEPT !.printed = Append(f.printed, line)] ELSE f

\* the activation starts tool.run(): what the tool stores is noted
Execute(f, tool) ==
    [f EXCEPT !.nexec = f.nexec + 1,
              !.writes = IF tool \in WriterTools
                         THEN Append(f.writes, [sid |-> class_state[tool],
                                                key |-> StrKey("counter"),
                                                value |-> Count(store[class_state[tool]]) + 1])
                         ELSE f.writes]

\* the end of a run call, as lastRun keeps it
Ended(kind, f, value, error) ==
    [ kind |-> kind, agent |-> f.agent, depth |-> Len(stack), call_id |-> f.call_id,
      value |-> value, error |-> error, messages |-> f.messages, iter |-> f.iter,
      script |-> f.script, nexec |-> f.nexec, writes |-> f.writes, printed |-> f.printed ]

\* a variant that omits str()
FunctionCallOutput_NoStr(call_id, function_output) ==
    Entry("function_call_output", call_id, NoTool, function_output.text, <<>>)

\* 'call_id': output.call_id, 'output': str(function_output)
FunctionCallOutput(call_id, function_output) ==
    Entry("function_call_output", call_id, NoTool, Str(function_output), <<>>)

\* a variant that leaves the call identifier out
ToolMessage_NoId(id, tool_output) == Entry("tool", 0, NoTool, Str(tool_output), <<>>)

\* "role": "tool", "content": str(tool_output), "tool_call_id": tool_call.id
ToolMessage(id, tool_output) == Entry("tool", id, NoTool, Str(tool_output), <<>>)

\* a variant that leaves the loop over the items after the first tool call
RestOfOutput_DropAll(output) == <<>>

\* the rest of response.output after the item just handled
RestOfOutput(output) == Tail(output)

\* the for loop over the items moves on; at its end the outer loop is back at its head
Advance(f) ==
    LET rest == RestOfOutput(f.output)
    IN  [f EXCEPT !.output = rest, !.pc = IF rest = <<>> THEN "loop" ELSE "output"]

\* responses: the tool's result is appended and the loop over response.output goes on
ResponsesResume(f, function_output) ==
    LET g == Verbose(f, <<"Function ", Head(f.output).tool.name, " output: ">>
                            \o Str(function_output))
    IN  Advance([g EXCEPT !.messages =
                    Append(g.messages,
                           FunctionCallOutput(Head(g.output).call_id, function_output))])

\* a variant that files the result under the last call of the choice
ChatResume_LastCall(f, tool_output) ==
    LET g == [f EXCEPT !.messages =
                    Append(f.messages,
                           ToolMessage(f.tool_calls[Len(f.tool_calls)].id, tool_output)),
                  !.tool_calls = Tail(f.tool_calls)]
    IN  IF g.tool_calls = <<>> THEN Advance(g) ELSE [g EXCEPT !.pc = "tool_calls"]

\* chat: the tool's result is appended and the loop over tool_calls goes on
ChatResume(f, tool_output) ==
    LET p == Verbose(f, <<"Tool ", Head(f.tool_calls).tool.name, " output: ">>
                            \o Str(tool_output))
        g == [p EXCEPT !.messages =
                    Append(p.messages, ToolMessage(Head(p.tool_calls).id, tool_output)),
                  !.tool_calls = Tail(p.tool_calls)]
    IN  IF g.tool_calls = <<>> THEN Advance(g) ELSE [g EXCEPT !.pc = "tool_calls"]

\* the caller of an agent tool gets what the inner run returned
Resume(caller, value) ==
    IF agents[caller.agent].variant = "responses"
    THEN ResponsesResume(caller, value)
    ELSE ChatResume(caller, value)

ReplaceTop(f) == [stack EXCEPT ![Len(stack)] = f]

\* a variant in which the caller of an agent tool never gets the result
Return_CallerWaits(f, value) ==
    /\ lastRun' = Ended("returned", f, value, "")
    /\ stack' = SubSeq(stack, 1, Len(stack) - 1)

\* `return value` in run: the activation f ends; a caller, if any, resumes
Return(f, value) ==
    /\ lastRun' = Ended("returned", f, value, "")
    /\ IF Len(stack) = 1
       THEN stack' = <<>>
       ELSE stack' = [i \in 1..(Len(stack) - 1) |->
                        IF i = Len(stack) - 1 THEN Resume(stack[i], value) ELSE stack[i]]

\* `raise` in run: no caller handles it, every activation is unwound
Raise(f, error) ==
    /\ lastRun' = Ended("raised", f, StrValue(<<>>), error)
    /\ stack' = <<>>

\* AgentTool.run: return agent_instance.run(self.input)
AgentToolRun(f, tool, call_id, arguments) ==
    /\ Len(stack) < MaxDepth
    /\ stack' = Append(ReplaceTop([f EXCEPT !.pc = "run_tool"]),
                       Frame(tool.agent, call_id, arguments))

Unchanged_objects == UNCHANGED <<agents, class_state, store, instances, lastOp>>

\* agent.run(msg), called from outside any run
RunStart(a, msg) ==
    /\ stack = <<>>
    /\ a \in 1..Len(agents)
    /\ stack' = <<Frame(a, 0, msg)>>
    /\ lastRun' = NoRun
    /\ Unchanged_objects

Run == \E a \in 1..Len(agents) : RunStart(a, <<"task">>)

\* the loop is over: return f'An answer could not be provided after ...'
Exhausted ==
    /\ stack # <<>>
    /\ Top.pc = "loop"
    /\ ~InRange(Top)
    /\ Return(Top, StrValue(Sentinel(Self.max_tool_calls)))
    /\ Unchanged_objects

(***************************************************************************)
(* Agent.run of agent.py (responses API).                                  *)
(***************************************************************************)
\* client.responses.parse(...) returns
ResponsesCall ==
    /\ stack # <<>>
    /\ Self.variant = "responses"
    /\ Top.pc = "loop"
    /\ InRange(Top)
    /\ \E r \in ResponsesOf(Self, Top.iter + 1) :
            stack' = ReplaceTop([Sent(Top, r) EXCEPT
                        !.output = r.output,
                        !.pc = IF r.output = <<>> THEN "loop" ELSE "output"])
    /\ lastRun' = NoRun
    /\ Unchanged_objects

\* a variant that goes on with the next iteration after a failed call
ResponsesFail_Retry ==
    /\ stack # <<>>
    /\ Self.variant = "responses"
    /\ Top.pc = "loop"
    /\ InRange(Top)
    /\ stack' = ReplaceTop(Sent(Top, Failure))
    /\ lastRun' = NoRun
    /\ Unchanged_objects

\* client.responses.parse(...) raises: return 'Error: OpenAI API call failed'
ResponsesFail ==
    /\ stack # <<>>
    /\ Self.variant = "responses"
    /\ Top.pc = "loop"
    /\ InRange(Top)
    /\ Return(Sent(Top, Failure), StrValue(ErrorString))
    /\ Unchanged_objects

\* the request a function_call item leaves in the conversation
FunctionCallMsg(output) == Entry("function_call", output.call_id, output.tool, output.arguments, <<>>)

\* one iteration of `for output in response.output`
ResponsesOutput ==
    /\ stack # <<>>
    /\ Self.variant = "responses"
    /\ Top.pc = "output"
    /\ LET output == Head(Top.output)
           response == Top.script[Len(Top.script)].response
       IN  \/ /\ output.type = "message"
              /\ Return([Top EXCEPT !.messages =
                            Append(Top.messages,
                                   Entry("message", 0, NoTool, output.text, <<>>))],
                        OrText(output_parsed(response.output), output_text(response.output)))
              /\ store' = store
           \/ /\ output.type = "function_call"
              /\ LET p == Verbose(Top, <<"Function call: ", output.tool.name, "(">>
                                            \o output.arguments \o <<")">>)
                     f == Execute([p EXCEPT !.messages =
                                        Append(p.messages, FunctionCallMsg(output))],
                                  output.tool)
                 IN  IF output.tool.agent = 0
                     THEN /\ stack' = ReplaceTop(
                                ResponsesResume(f, PlainRun(output.tool, output.arguments)))
                          /\ store' = StoreAfterRun(output.tool)
                     ELSE /\ AgentToolRun(f, output.tool, output.call_id, output.arguments)
                          /\ store' = store
              /\ lastRun' = NoRun
           \/ /\ output.type \notin {"message", "function_call"}
              /\ stack' = ReplaceTop(Advance(Top))
              /\ lastRun' = NoRun
              /\ store' = store
    /\ UNCHANGED <<agents, class_state, instances, lastOp>>

(***************************************************************************)
(* Agent.run of chat/agent.py (chat.completions API).                      *)
(***************************************************************************)
\* client.beta.chat.completions.parse(**kwargs) returns
ChatCall ==
    /\ stack # <<>>
    /\ Self.variant = "chat"
    /\ Top.pc = "loop"
    /\ InRange(Top)
    /\ \E r \in ChatResponsesOf(Self, Top.iter + 1) :
            stack' = ReplaceTop([Sent(Top, r) EXCEPT
                        !.output = r.choices,
                        !.pc = IF r.choices = <<>> THEN "loop" ELSE "output"])
    /\ lastRun' = NoRun
    /\ Unchanged_objects

\* a variant that empties the SharedStates when the call fails
ChatFail_Rollback ==
    /\ stack # <<>>
    /\ Self.variant = "chat"
    /\ Top.pc = "loop"
    /\ InRange(Top)
    /\ Raise(Sent(Top, Failure), "OpenAI API call failed")
    /\ store' = [sid \in DOMAIN store |-> EmptyData]
    /\ UNCHANGED <<agents, class_state, instances, lastOp>>

\* client.beta.chat.completions.parse(**kwargs) raises: raise Exception(...)
ChatFail ==
    /\ stack # <<>>
    /\ Self.variant = "chat"
    /\ Top.pc = "loop"
    /\ InRange(Top)
    /\ Raise(Sent(Top, Failure), "OpenAI API call failed")
    /\ Unchanged_objects

\* one iteration of `for output in response.choices`
ChatChoice ==
    /\ stack # <<>>
    /\ Self.variant = "chat"
    /\ Top.pc = "output"
    /\ LET message == Head(Top.output)
       IN  \/ /\ message.tool_calls # <<>>
              /\ stack' = ReplaceTop([Top EXCEPT
                            !.messages = Append(Top.messages,
                                Entry("assistant", 0, NoTool, <<>>, message.tool_calls)),
                            !.tool_calls = message.tool_calls,
                            !.pc = "tool_calls"])
              /\ lastRun' = NoRun
           \/ /\ message.tool_calls = <<>>
              /\ message.parsed # None \/ message.content # <<>>
              /\ Return([Top EXCEPT !.messages =
                            Append(Top.messages,
                                   Entry("assistant", 0, NoTool,
                                         IF message.content # <<>> THEN message.content
                                         ELSE Str(message.parsed[1]), <<>>))],
                        OrText(message.parsed, message.content))
           \/ /\ message.tool_calls = <<>>
              /\ message.parsed = None
              /\ message.content = <<>>
              /\ Raise(Top, "Unexpected response from OpenAI")
    /\ Unchanged_objects

\* one iteration of `for tool_call in output.message.tool_calls`
ChatToolCall ==
    /\ stack # <<>>
    /\ Self.variant = "chat"
    /\ Top.pc = "tool_calls"
    /\ LET tool_call == Head(Top.tool_calls)
           p == Verbose(Top, <<"Tool call: ", tool_call.tool.name, "(">>
                                \o tool_call.arguments \o <<")">>)
           f == Execute(p, tool_call.tool)
       IN  IF tool_call.tool.agent = 0
           THEN /\ stack' = ReplaceTop(
                        ChatResume(f, PlainRun(tool_call.tool, tool_call.arguments)))
                /\ store' = StoreAfterRun(tool_call.tool)
           ELSE /\ AgentToolRun(f, tool_call.tool, tool_call.id, tool_call.arguments)
                /\ store' = store
    /\ lastRun' = NoRun
    /\ UNCHANGED <<agents, class_state, instances, lastOp>>

(***************************************************************************)
(* The run loops of two agents composed as in the example use case: a      *)
(* helmsman with one plain tool and a structured output, and a captain     *)
(* whose roster holds the helmsman as a tool and a plain tool.             *)
(***************************************************************************)
Helmsman(variant, max_tool_calls) ==
    NewAgent(variant, DefaultModel, Some(<<SimpleTool>>), max_tool_calls, Some("Output"),
             None, FALSE, 1)

Captain(variant, max_tool_calls) ==
    NewAgent(variant, DefaultModel, Some(<<as_tool(1), CalculatorTool>>), max_tool_calls,
             NOT_GIVEN, None, FALSE, 2)

Init ==
    /\ \E v1 \in Variants, v2 \in Variants, b1 \in 0..MaxInnerBudget, b2 \in 0..MaxBudget :
            agents = <<Helmsman(v1, b1), Captain(v2, b2)>>
    /\ class_state = BindRoster(BindRoster([c \in ToolClasses |-> 0], agents[1].tools, 1),
                                agents[2].tools, 2)
    /\ store = <<EmptyData, EmptyData>>
    /\ instances = <<>>
    /\ lastOp = [op |-> "none", error |-> ""]
    /\ stack = <<>>
    /\ lastRun = NoRun

Next ==
    \/ Run
    \/ Exhausted
    \/ ResponsesCall
    \/ ResponsesFail
    \/ ResponsesOutput
    \/ ChatCall
    \/ ChatFail
    \/ ChatChoice
    \/ ChatToolCall

Spec == Init /\ [][Next]_vars

(***************************************************************************)
(* The run loop of one agent with one plain tool, just constructed with    *)
(* any variant, model, reasoning level, verbosity and budget.              *)
(***************************************************************************)
InitOptions ==
    /\ \E variant \in Variants, model \in Models, reasoning \in {None, Some("high")},
          verbose \in BOOLEAN, max_tool_calls \in 0..MaxBudget :
            /\ agents = <<NewAgent(variant, model, Some(<<SimpleTool>>), max_tool_calls,
                                   NOT_GIVEN, reasoning, verbose, 1)>>
            /\ lastOp = [op |-> "Agent", error |-> "", agent |-> 1,
                         variant |-> variant, model |-> model,
                         tools |-> Some(<<SimpleTool>>),
                         output_format |-> NOT_GIVEN, reasoning |-> reasoning]
    /\ class_state = BindRoster([c \in ToolClasses |-> 0], <<SimpleTool>>, 1)
    /\ store = <<EmptyData>>
    /\ instances = <<>>
    /\ stack = <<>>
    /\ lastRun = NoRun

SpecOptions == InitOptions /\ [][Next]_vars

(***************************************************************************)
(* The run loop of one agent of either variant with two plain tools, with  *)
(* or without a structured-output schema.  The model may also answer with  *)
(* an empty text: the responses API then returns one message item whose    *)
(* text is empty, the chat API a message without content.                  *)
(***************************************************************************)
InitVariants ==
    /\ \E variant \in Variants, output_format \in {NOT_GIVEN, Some("Output")},
          max_tool_calls \in 0..MaxBudget :
            agents = <<NewAgent(variant, DefaultModel, Some(<<SimpleTool, CalculatorTool>>),
                                max_tool_calls, output_format, None, FALSE, 1)>>
    /\ class_state = BindRoster([c \in ToolClasses |-> 0], <<SimpleTool, CalculatorTool>>, 1)
    /\ store = <<EmptyData>>
    /\ instances = <<>>
    /\ lastOp = [op |-> "none", error |-> ""]
    /\ stack = <<>>
    /\ lastRun = NoRun

\* client.responses.parse(...) returns one message item with an empty text
ResponsesEmptyAnswer ==
    /\ stack # <<>>
    /\ Self.variant = "responses"
    /\ Top.pc = "loop"
    /\ InRange(Top)
    /\ LET r == [failed |-> FALSE, output |-> <<MessageItem(<<>>, None)>>]
       IN  stack' = ReplaceTop([Sent(Top, r) EXCEPT !.output = r.output, !.pc = "output"])
    /\ lastRun' = NoRun
    /\ Unchanged_objects

NextVariants ==
    \/ Run
    \/ Exhausted
    \/ ResponsesCall
    \/ ResponsesEmptyAnswer
    \/ ResponsesFail
    \/ ResponsesOutput
    \/ ChatCall
    \/ ChatFail
    \/ ChatChoice
    \/ ChatToolCall

SpecVariants == InitVariants /\ [][NextVariants]_vars

(***************************************************************************)
(* Termination.  Every step of a run is taken once it can be: the remote   *)
(* call returns or fails and a plain tool's run returns.  Besides the two  *)
(* agents of the example, compositions with a cycle: an agent whose roster *)
(* was given the agent itself as a tool, and two agents that list each     *)
(* other.  Nothing in the code forbids them; the nesting of their runs is  *)
(* cut at MaxDepth.                                                        *)
(***************************************************************************)
\* agent `sid` with a roster that holds the agent `other` as its only tool
Delegator(variant, max_tool_calls, sid, other) ==
    NewAgent(variant, DefaultModel, Some(<<as_tool(other)>>), max_tool_calls, NOT_GIVEN,
             None, FALSE, sid)

InitCycle ==
    /\ \E v \in Variants, b \in 1..MaxInnerBudget :
            \/ agents = <<Delegator(v, b, 1, 1)>>
            \/ agents = <<Delegator(v, b, 1, 2), Delegator(v, b, 2, 1)>>
    /\ class_state = [c \in ToolClasses |->
                        IF \E a \in 1..Len(agents) : c \in RosterSet(agents[a])
                        THEN CHOOSE a \in 1..Len(agents) : c \in RosterSet(agents[a])
                        ELSE 0]
    /\ store = [a \in 1..Len(agents) |-> EmptyData]
    /\ instances = <<>>
    /\ lastOp = [op |-> "none", error |-> ""]
    /\ stack = <<>>
    /\ lastRun = NoRun

InitLive == Init \/ InitCycle

\* the steps of a run in progress
Step ==
    \/ Exhausted
    \/ ResponsesCall
    \/ ResponsesFail
    \/ ResponsesOutput
    \/ ChatCall
    \/ ChatFail
    \/ ChatChoice
    \/ ChatToolCall

SpecLive == InitLive /\ [][Next]_vars /\ WF_vars(Step)

(***************************************************************************)
(* Tool arguments that fail validation.  The parse call of the client      *)
(* builds the tool instance of every tool call from the arguments the      *)
(* model sent (parsed_arguments), so pydantic's ValidationError is raised  *)
(* inside the try block of run.                                            *)
(***************************************************************************)
\* the parse call raised a ValidationError for the arguments kwargs of a call of tool
Invalid(tool, kwargs) ==
    [failed |-> TRUE, error |-> "ValidationError", tool |-> tool, kwargs |-> kwargs]

\* the keyword arguments the model can send for tool that do not pass its validation
BadKwargs(tool) == {kwargs \in KwargsOf(tool) : ~Validates(tool, kwargs)}

\* client.responses.parse(...) raises while it parses the arguments of a tool call:
\* except Exception: return 'Error: OpenAI API call failed'
ResponsesInvalid ==
    /\ stack # <<>>
    /\ Self.variant = "responses"
    /\ Top.pc = "loop"
    /\ InRange(Top)
    /\ \E tool \in RosterSet(Self) : \E kwargs \in BadKwargs(tool) :
            Return(Sent(Top, Invalid(tool, kwargs)), StrValue(ErrorString))
    /\ Unchanged_objects

\* client.beta.chat.completions.parse(**kwargs) raises while it parses the arguments
\* of a tool call: except Exception as e: raise Exception(...)
ChatInvalid ==
    /\ stack # <<>>
    /\ Self.variant = "chat"
    /\ Top.pc = "loop"
    /\ InRange(Top)
    /\ \E tool \in RosterSet(Self) : \E kwargs \in BadKwargs(tool) :
            Raise(Sent(Top, Invalid(tool, kwargs)), "OpenAI API call failed")
    /\ Unchanged_objects

NextArgs ==
    \/ Run
    \/ Exhausted
    \/ ResponsesCall
    \/ ResponsesFail
    \/ ResponsesInvalid
    \/ ResponsesOutput
    \/ ChatCall
    \/ ChatFail
    \/ ChatInvalid
    \/ ChatChoice
    \/ ChatToolCall

SpecArgs == InitOptions /\ [][NextArgs]_vars

(***************************************************************************)
(* Agents whose rosters hold a tool that writes to the SharedState: any    *)
(* sequence of constructions and runs.  A run starts only while every      *)
(* counter is below MaxCount, which keeps the counters bounded.            *)
(***************************************************************************)
MaxCount == 2

SharedRosters == {Some(<<CounterTool>>), Some(<<CounterTool, SimpleTool>>)}

ConstructShared ==
    \E variant \in Variants, tools \in SharedRosters :
        Construct(variant, DefaultModel, tools, MaxBudget, NOT_GIVEN, None, FALSE)

RunShared ==
    /\ \A sid \in 1..Len(store) : Count(store[sid]) < MaxCount
    /\ Run

NextShared ==
    \/ ConstructShared
    \/ RunShared
    \/ Exhausted
    \/ ResponsesCall
    \/ ResponsesFail
    \/ ResponsesOutput
    \/ ChatCall
    \/ ChatFail
    \/ ChatChoice
    \/ ChatToolCall

SpecShared == InitSetup /\ [][NextShared]_vars

(***************************************************************************)
(* Vocabulary of the properties.                                           *)
(***************************************************************************)
Frames == {stack[i] : i \in 1..Len(stack)}
HasEnded == lastRun.kind # "none"
VariantOf(r) == agents[r.agent].variant
BudgetOf(r) == agents[r.agent].max_tool_calls

Concat(f, n) ==
    LET RECURSIVE cat(_)
        cat(i) == IF i > n THEN <<>> ELSE f[i] \o cat(i + 1)
    IN  cat(1)

\* the call identifiers of the tool-call requests / tool outputs of a conversation, in order
RequestIds(messages) ==
    Concat([i \in 1..Len(messages) |->
              IF messages[i].type = "function_call" THEN <<messages[i].call_id>>
              ELSE IF messages[i].type = "assistant"
                   THEN [j \in 1..Len(messages[i].tool_calls) |-> messages[i].tool_calls[j].id]
                   ELSE <<>>], Len(messages))

OutputIds(messages) ==
    Concat([i \in 1..Len(messages) |->
              IF messages[i].type \in {"function_call_output", "tool"}
              THEN <<messages[i].call_id>> ELSE <<>>], Len(messages))

\* the units of a response: its output items (responses) or its choices (chat)
Units(variant, r) ==
    IF r.failed THEN <<>> ELSE IF variant = "responses" THEN r.output ELSE r.choices

\* the tool calls one unit asks for
UnitCalls(variant, u) ==
    IF variant = "responses"
    THEN (IF u.type = "function_call" THEN <<u.call_id>> ELSE <<>>)
    ELSE [j \in 1..Len(u.tool_calls) |-> u.tool_calls[j].id]

\* the unit is an answer: a message item, or a choice with text or a parsed object
IsAnswerUnit(variant, u) ==
    IF variant = "responses" THEN u.type = "message"
    ELSE u.tool_calls = <<>> /\ (u.parsed # None \/ u.content # <<>>)

\* the unit is neither an answer nor a recognized tool call
IsUnknownUnit(variant, u) == UnitCalls(variant, u) = <<>> /\ ~IsAnswerUnit(variant, u)

\* every tool call a response asks for, in the order delivered
CallsOf(variant, r) ==
    LET us == Units(variant, r)
    IN  Concat([i \in 1..Len(us) |-> UnitCalls(variant, us[i])], Len(us))

\* the tool calls of a response placed before its first answer unit (in the chat
\* variant also before its first choice that is neither)
CallsBeforeAnswer(variant, r) ==
    LET us == Units(variant, r)
        stops == {i \in 1..Len(us) :
                    \/ IsAnswerUnit(variant, us[i])
                    \/ variant = "chat" /\ IsUnknownUnit(variant, us[i])}
        last == IF stops = {} THEN Len(us)
                ELSE (CHOOSE i \in stops : \A j \in stops : i <= j) - 1
    IN  Concat([i \in 1..last |-> UnitCalls(variant, us[i])], last)

OneToolCall(variant, r) == ~r.failed /\ Len(Units(variant, r)) = 1 /\ Len(CallsOf(variant, r)) = 1
OneAnswer(variant, r) ==
    ~r.failed /\ Len(Units(variant, r)) = 1 /\ IsAnswerUnit(variant, Units(variant, r)[1])
OnlyToolCalls(variant, r) ==
    ~r.failed /\ \A i \in 1..Len(Units(variant, r)) : UnitCalls(variant, Units(variant, r)[i]) # <<>>
Shapeless(variant, r) ==
    ~r.failed /\ \A i \in 1..Len(Units(variant, r)) : IsUnknownUnit(variant, Units(variant, r)[i])

\* the value an answer unit carries: the parsed object when there is one, else the text
AnswerValue(variant, u) ==
    IF u.parsed # None THEN u.parsed[1]
    ELSE StrValue(IF variant = "responses" THEN u.text ELSE u.content)

\* the tool calls a whole script asks for
ScriptCalls(variant, script, n) ==
    Concat([i \in 1..n |-> CallsOf(variant, script[i].response)], n)

(***************************************************************************)
(* C1.  For both variants and every K < max_tool_calls: when the model     *)
(* replies with K responses that each request one tool call and then with  *)
(* one answer response, run returns that answer, and the conversation at   *)
(* return holds exactly K request/output pairs in the order requested.     *)
(***************************************************************************)
ScriptedAnswer(r) ==
    LET n == Len(r.script)
    IN  /\ n >= 1
        /\ \A i \in 1..(n - 1) : OneToolCall(VariantOf(r), r.script[i].response)
        /\ OneAnswer(VariantOf(r), r.script[n].response)

\* every response the run got so far asks for exactly one tool call
OnlyOneToolCallEach(r) ==
    \A i \in 1..Len(r.script) : OneToolCall(VariantOf(r), r.script[i].response)

NeverAnswers(r) ==
    \A i \in 1..Len(r.script) : OnlyToolCalls(VariantOf(r), r.script[i].response)

\* C2: a run whose responses hold only tool calls returns the sentinel after exactly
\* max_tool_calls remote calls; no run makes more remote calls than its budget, and the
\* sentinel is never returned after fewer
C2_SentinelAfterBudget ==
    /\ \A f \in Frames : f.iter <= BudgetOf(f) /\ Len(f.script) = f.iter
    /\ (HasEnded /\ lastRun.kind = "returned" /\ NeverAnswers(lastRun)) =>
            /\ lastRun.value = StrValue(Sentinel(BudgetOf(lastRun)))
            /\ lastRun.iter = BudgetOf(lastRun)
            /\ Len(lastRun.script) = BudgetOf(lastRun)
    /\ (HasEnded /\ lastRun.kind = "returned"
            /\ lastRun.value = StrValue(Sentinel(BudgetOf(lastRun)))) =>
            lastRun.iter = BudgetOf(lastRun)

C2_Witness ==
    /\ HasEnded
    /\ lastRun.kind = "returned"
    /\ NeverAnswers(lastRun)
    /\ BudgetOf(lastRun) = MaxBudget
    /\ Len(OutputIds(lastRun.messages)) >= MaxBudget
    /\ lastRun.value = StrValue(Sentinel(MaxBudget))

(***************************************************************************)
(* C3.  max_tool_calls is the maximum number of times the agent can call a *)
(* tool: in one run, the number of tool executions performed by that run's *)
(* own loop never exceeds max_tool_calls.                                  *)
(***************************************************************************)
\* C3: the tool executions of one run never exceed its max_tool_calls
C3_ToolExecutionsWithinBudget ==
    /\ \A f \in Frames : f.nexec <= BudgetOf(f)
    /\ HasEnded => lastRun.nexec <= BudgetOf(lastRun)

(***************************************************************************)
(* C4.  For both variants: every tool-invocation item of one response is   *)
(* executed, with no early return and no remote call in between, before    *)
(* the next remote call, whatever other items the response holds and       *)
(* wherever they are placed.                                               *)
(***************************************************************************)
\* the calls executed between the remote call that got response i and the next one
ExecutedFor(r, i) ==
    LET from == r.script[i].sent + 1
        to == IF i < Len(r.script) THEN r.script[i + 1].sent ELSE Len(r.messages)
    IN  OutputIds(SubSeq(r.messages, from, to))

\* C4, the original statement: a run that is back at the head of its loop, or has
\* returned, has executed every tool call of every response it got
C4_EveryToolCallExecuted ==
    /\ \A f \in Frames : f.pc = "loop" =>
            \A i \in 1..Len(f.script) :
                ExecutedFor(f, i) = CallsOf(VariantOf(f), f.script[i].response)
    /\ (HasEnded /\ lastRun.kind = "returned") =>
            \A i \in 1..Len(lastRun.script) :
                lastRun.script[i].response.failed
                    \/ ExecutedFor(lastRun, i) = CallsOf(VariantOf(lastRun), lastRun.script[i].response)

\* C4, as amended: the tool calls placed before the first answer item are executed, in
\* order, before the next remote call or the return; those after it never are
C4_ToolCallsBeforeAnswerExecuted ==
    /\ \A f \in Frames : f.pc = "loop" =>
            \A i \in 1..Len(f.script) :
                ExecutedFor(f, i) = CallsBeforeAnswer(VariantOf(f), f.script[i].response)
    /\ (HasEnded /\ lastRun.kind = "returned") =>
            \A i \in 1..Len(lastRun.script) :
                lastRun.script[i].response.failed
                    \/ ExecutedFor(lastRun, i)
                         = CallsBeforeAnswer(VariantOf(lastRun), lastRun.script[i].response)

C4_Witness ==
    \E f \in Frames :
        /\ f.pc = "loop"
        /\ f.iter = 1
        /\ Len(CallsOf(VariantOf(f), f.script[1].response)) = 2
        /\ ExecutedFor(f, 1) = CallsOf(VariantOf(f), f.script[1].response)

(***************************************************************************)
(* C5.  Tool executions within one run are strictly sequential and in the  *)
(* order the model delivered the calls: an output is appended before the   *)
(* next tool call of the same response starts, and no two executions       *)
(* (nested agent runs included) overlap.                                   *)
(***************************************************************************)
IsPrefix(s, t) == Len(s) <= Len(t) /\ SubSeq(t, 1, Len(s)) = s

\* the requests of a conversation that have no output yet
OpenCalls(messages) ==
    {c \in {RequestIds(messages)[i] : i \in 1..Len(RequestIds(messages))} :
        \A j \in 1..Len(OutputIds(messages)) : OutputIds(messages)[j] # c}

Sequential(r, running) ==
    LET v == VariantOf(r)
        asked == ScriptCalls(v, r.script, Len(r.script))
        done == OutputIds(r.messages)
    IN  /\ IsPrefix(done, asked)
        /\ IF v = "responses"
           THEN /\ IsPrefix(RequestIds(r.messages), asked)
                /\ Len(RequestIds(r.messages)) = Len(done) + (IF running THEN 1 ELSE 0)
                /\ \A i \in 1..Len(r.messages) :
                        r.messages[i].type = "function_call_output" =>
                            /\ r.messages[i - 1].type = "function_call"
                            /\ r.messages[i - 1].call_id = r.messages[i].call_id
           ELSE IsPrefix(done, RequestIds(r.messages))
        /\ r.nexec = Len(done) + (IF running THEN 1 ELSE 0)

\* C5: in every activation the outputs are a prefix of the calls delivered, in order;
\* at most one call is open, the one being executed; only the innermost activation
\* moves, and a nested run is the execution of the caller's open call
C5_SequentialInOrder ==
    /\ \A i \in 1..Len(stack) :
            /\ Sequential(stack[i], stack[i].pc = "run_tool")
            /\ (stack[i].pc = "run_tool") <=> (i < Len(stack))
            /\ i < Len(stack) =>
                    /\ stack[i + 1].call_id \in OpenCalls(stack[i].messages)
                    /\ stack[i + 1].call_id
                         = ScriptCalls(VariantOf(stack[i]), stack[i].script,
                                       Len(stack[i].script))[stack[i].nexec]
    /\ HasEnded => Sequential(lastRun, FALSE)

C5_Witness ==
    /\ Len(stack) = 2
    /\ stack[1].nexec = 2
    /\ Len(OutputIds(stack[1].messages)) = 1
    /\ stack[2].pc = "output"

(***************************************************************************)
(* C6.  When the remote call fails at any iteration, the run ends at once  *)
(* with no retry: no further remote call and no further tool execution in  *)
(* that run; the responses variant returns 'Error: OpenAI API call failed' *)
(* and the chat variant raises instead of returning a value.               *)
(***************************************************************************)
FailedAt(r) == {i \in 1..Len(r.script) : r.script[i].response.failed}

\* C6: no activation goes on after a failed remote call; the run that ends with it
\* failed at its last remote call, appended nothing after it, and the responses variant
\* returned the error string while the chat variant raised
C6_RemoteFailureEndsRun ==
    /\ \A f \in Frames : FailedAt(f) = {}
    /\ (HasEnded /\ FailedAt(lastRun) # {}) =>
            /\ FailedAt(lastRun) = {Len(lastRun.script)}
            /\ lastRun.iter = Len(lastRun.script)
            /\ Len(lastRun.messages) = lastRun.script[Len(lastRun.script)].sent
            /\ VariantOf(lastRun) = "responses" =>
                    /\ lastRun.kind = "returned"
                    /\ lastRun.value = StrValue(<<"Error: OpenAI API call failed">>)
            /\ VariantOf(lastRun) = "chat" =>
                    /\ lastRun.kind = "raised"
                    /\ lastRun.error = "OpenAI API call failed"
    /\ (HasEnded /\ lastRun.kind = "raised" /\ lastRun.error = "OpenAI API call failed") =>
            FailedAt(lastRun) # {}

C6_Witness ==
    /\ HasEnded
    /\ FailedAt(lastRun) = {2}
    /\ lastRun.nexec >= 1
    /\ lastRun.kind = "returned"

(***************************************************************************)
(* C7.  In both variants, a response that holds neither an answer item nor *)
(* a recognized tool-call item (no items at all, or only items of an       *)
(* unknown type) makes run raise the unexpected-response-shape error; run  *)
(* never silently continues to the next remote call on such a response.    *)
(***************************************************************************)
ShapelessAt(r) == {i \in 1..Len(r.script) : Shapeless(VariantOf(r), r.script[i].response)}

\* C7: no run is back at the head of its loop after a shapeless response, and a run
\* that got one ended by raising the unexpected-response error
C7_ShapelessResponseRaises ==
    /\ \A f \in Frames : f.pc = "loop" => ShapelessAt(f) = {}
    /\ (HasEnded /\ ShapelessAt(lastRun) # {}) =>
            /\ lastRun.kind = "raised"
            /\ lastRun.error = "Unexpected response from OpenAI"

(***************************************************************************)
(* C9.  When agent A is wrapped by as_tool into tool class T and T is in   *)
(* agent B's roster, B's execution of a T call runs A's complete run loop  *)
(* (with T's input as the user message) to its end before B's loop         *)
(* proceeds, and the value A's run returns is what B appends, stringified, *)
(* as T's tool output for that call identifier.                            *)
(***************************************************************************)
\* the tool call the activation f is executing
CurrentCall(f) ==
    IF VariantOf(f) = "responses"
    THEN [id |-> Head(f.output).call_id, tool |-> Head(f.output).tool,
          arguments |-> Head(f.output).arguments]
    ELSE [id |-> Head(f.tool_calls).id, tool |-> Head(f.tool_calls).tool,
          arguments |-> Head(f.tool_calls).arguments]

LastOf(s) == s[Len(s)]

\* B starts T: an activation of A begins, with T's input as the user message
C9_Delegates ==
    (Len(stack) >= 1 /\ Len(stack') = Len(stack) + 1) =>
        LET B == stack'[Len(stack)]
            A == stack'[Len(stack) + 1]
        IN  /\ B.pc = "run_tool"
            /\ CurrentCall(B).tool = as_tool(A.agent)
            /\ A.call_id = CurrentCall(B).id
            /\ A.iter = 0
            /\ A.messages = <<Entry("system", 0, NoTool, RoleText, <<>>),
                              Entry("user", 0, NoTool, CurrentCall(B).arguments, <<>>)>>

\* while A's run is active, B's activation does not move
C9_Waits ==
    (Len(stack) >= 2 /\ Len(stack') >= Len(stack)) =>
        \A i \in 1..(Len(stack) - 1) : stack'[i] = stack[i]

\* A's run returns: B appends str(value) for the call it was executing
C9_Returns ==
    (Len(stack) >= 2 /\ Len(stack') = Len(stack) - 1) =>
        LET B == stack[Len(stack) - 1]
            A == stack[Len(stack)]
            after == stack'[Len(stack) - 1]
            out == LastOf(after.messages)
        IN  /\ lastRun'.kind = "returned"
            /\ lastRun'.agent = A.agent
            /\ lastRun'.agent = CurrentCall(B).tool.agent
            /\ Len(after.messages) = Len(B.messages) + 1
            /\ SubSeq(after.messages, 1, Len(B.messages)) = B.messages
            /\ out.type = (IF VariantOf(B) = "responses" THEN "function_call_output" ELSE "tool")
            /\ out.call_id = CurrentCall(B).id
            /\ out.content = (IF lastRun'.value.parsed
                              THEN <<"answer='">> \o lastRun'.value.text \o <<"'">>
                              ELSE lastRun'.value.text)
            /\ after.pc # "run_tool"

\* C9: every step delegates a T call to a fresh run of A, leaves B untouched while A
\* runs, and on A's return appends str(value) to B for the call identifier
C9_AgentAsTool == [][C9_Delegates /\ C9_Waits /\ C9_Returns]_vars

C9_Witness ==
    /\ HasEnded
    /\ lastRun.depth = 2
    /\ lastRun.kind = "returned"
    /\ lastRun.value.parsed
    /\ Len(lastRun.script) = 1
    /\ Len(stack) = 1
    /\ LastOf(stack[1].messages).content = <<"answer='", "ok", "'">>

(***************************************************************************)
(* C8.  Constructing an Agent of either variant with a model identifier of *)
(* the 'gemini-' family, a structured-output schema and a non-empty tool   *)
(* list always raises the configuration-incompatibility error during       *)
(* construction, so no agent object exists.                                *)
(***************************************************************************)
DisallowedCombination ==
    /\ lastOp.op = "Agent"
    /\ IsPrefix(<<"g", "e", "m", "i", "n", "i", "-">>, lastOp.model)
    /\ lastOp.output_format # NOT_GIVEN
    /\ lastOp.tools # None
    /\ lastOp.tools[1] # <<>>

\* C8: a construction with a gemini model, an output schema and a non-empty tool list
\* raised ValueError and made no agent, in either variant
C8_DisallowedCombinationRaises ==
    DisallowedCombination => (lastOp.error = "ValueError" /\ lastOp.agent = 0)

(***************************************************************************)
(* C10.  For one agent and tool instances of classes in its roster,        *)
(* created after the agent and with no other agent constructed since: a    *)
(* set through one instance's shared state is read back by get through     *)
(* every other instance's shared state and through the agent's own         *)
(* shared_state.                                                           *)
(***************************************************************************)
\* instance i is of a class in the roster of the agent constructed last, and was
\* created after that agent
UnderLastAgent(i) ==
    /\ agents # <<>>
    /\ instances[i].cls \in RosterSet(agents[Len(agents)])
    /\ instances[i].born = Len(agents)

\* C10: after a set through an instance under the last agent, get through every
\* instance under that agent and through the agent's shared_state gives the value set
C10_SetVisibleToAllHolders ==
    (/\ lastOp.op = "set"
     /\ lastOp.error = ""
     /\ lastOp.holder.via = "tool"
     /\ UnderLastAgent(lastOp.holder.id)) =>
        /\ \A j \in 1..Len(instances) :
                UnderLastAgent(j) =>
                    /\ InstanceState(j) # 0
                    /\ DataGet(store[InstanceState(j)], lastOp.key, None) = Some(lastOp.value)
        /\ DataGet(store[agents[Len(agents)].shared_state], lastOp.key, None)
             = Some(lastOp.value)

C10_Witness ==
    /\ lastOp.op = "set"
    /\ lastOp.error = ""
    /\ lastOp.holder.via = "tool"
    /\ Len(agents) = 2
    /\ Len(instances) = 2
    /\ UnderLastAgent(1)
    /\ UnderLastAgent(2)
    /\ instances[1].cls # instances[2].cls
    /\ lastOp.value = 2
    /\ DataGet(store[agents[2].shared_state], lastOp.key, None) = Some(2)

(***************************************************************************)
(* C11.  After any sequence of Agent constructions, each tool class is     *)
(* bound to exactly one SharedState: the one of the most recently          *)
(* constructed agent whose roster lists the class.  An earlier agent's     *)
(* binding is overwritten.                                                 *)
(***************************************************************************)
\* the agents whose roster lists class c
Listing(c) == {a \in 1..Len(agents) : c \in RosterSet(agents[a])}

LastListing(c) == CHOOSE a \in Listing(c) : \A b \in Listing(c) : b <= a

\* C11: a class some agent lists is bound to the SharedState of the last agent that
\* lists it, and to no earlier agent's
C11_LastAgentWins ==
    \A c \in ToolClasses :
        Listing(c) # {} =>
            /\ class_state[c] = agents[LastListing(c)].shared_state
            /\ \A a \in Listing(c) :
                    a # LastListing(c) => class_state[c] # agents[a].shared_state

C11_Witness ==
    /\ Len(agents) = 2
    /\ Listing(SimpleTool) = {1, 2}
    /\ Listing(CalculatorTool) = {1}
    /\ class_state[SimpleTool] = agents[2].shared_state
    /\ class_state[CalculatorTool] = agents[1].shared_state
    /\ instances # <<>>

(***************************************************************************)
(* C12.  Immediately after constructing an Agent with a roster of N tool   *)
(* classes (N >= 0), the agent holds exactly N schema descriptors, one per *)
(* roster entry in roster order, and every listed class is bound to that   *)
(* agent's own SharedState.                                                *)
(***************************************************************************)
\* the roster the caller passed to the construction that just ended
PassedRoster == IF lastOp.tools = None THEN <<>> ELSE lastOp.tools[1]

\* C12: after a successful construction the new agent has one descriptor per entry of
\* the roster passed, naming that entry, and every entry's class is bound to the new
\* agent's SharedState, which no earlier agent has
C12_SchemasAndBinding ==
    (lastOp.op = "Agent" /\ lastOp.error = "") =>
        LET a == agents[lastOp.agent]
        IN  /\ lastOp.agent = Len(agents)
            /\ a.tools = PassedRoster
            /\ Len(a.openai_tools_schema) = Len(PassedRoster)
            /\ \A i \in 1..Len(PassedRoster) :
                    /\ a.openai_tools_schema[i].type = "function"
                    /\ a.openai_tools_schema[i].name = PassedRoster[i].name
                    /\ a.openai_tools_schema[i].agent = PassedRoster[i].agent
                    /\ class_state[PassedRoster[i]] = a.shared_state
            /\ a.shared_state \in 1..Len(store)
            /\ store[a.shared_state] = EmptyData
            /\ \A b \in 1..(Len(agents) - 1) : agents[b].shared_state # a.shared_state

C12_Witness ==
    /\ lastOp.op = "Agent"
    /\ lastOp.error = ""
    /\ lastOp.agent = 2
    /\ Len(PassedRoster) = 2
    /\ PassedRoster[1].agent = 1
    /\ agents[1].tools = <<>>

(***************************************************************************)
(* C13.  SharedState is a map with no deletion: get(k, d) returns the      *)
(* value of the most recent set(k, .) if there was one and d (None when    *)
(* not supplied) otherwise; get never changes the stored data, and a key   *)
(* once set stays present.                                                 *)
(***************************************************************************)
\* a set with a string key stores the value under the key and touches nothing else
C13_SetStep ==
    (lastOp'.op = "set" /\ lastOp'.error = "") =>
        LET sid == lastOp'.holder.sid
            key == lastOp'.key
        IN  /\ DOMAIN store'[sid] = (DOMAIN store[sid]) \cup {key}
            /\ store'[sid][key] = lastOp'.value
            /\ \A k \in (DOMAIN store[sid]) \ {key} : store'[sid][k] = store[sid][k]
            /\ \A o \in (1..Len(store)) \ {sid} : store'[o] = store[o]
            /\ Len(store') = Len(store)

\* a get with a string key returns what is stored under it, else the default, and
\* stores nothing
C13_GetStep ==
    (lastOp'.op = "get" /\ lastOp'.error = "") =>
        LET sid == lastOp'.holder.sid
            key == lastOp'.key
        IN  /\ store' = store
            /\ lastOp'.result = (IF key \in DOMAIN store[sid]
                                 THEN <<store[sid][key]>> ELSE lastOp'.default)

\* whatever the step, no key disappears
C13_NoDeletion ==
    \A sid \in 1..Len(store) :
        /\ sid \in 1..Len(store')
        /\ (DOMAIN store[sid]) \subseteq DOMAIN store'[sid]

\* C13: every step keeps SharedState a map without deletion: a set makes its key hold
\* the value set and changes no other key, a get returns the value last stored under
\* the key or else its default and changes nothing, and no step removes a key
C13_MapWithoutDeletion == [][C13_SetStep /\ C13_GetStep /\ C13_NoDeletion]_vars

C13_Witness ==
    /\ lastOp.op = "get"
    /\ lastOp.error = ""
    /\ lastOp.default = Some(0)
    /\ lastOp.result = Some(2)
    /\ lastOp.holder.via = "tool"
    /\ DOMAIN store[1] = {StrKey("counter"), StrKey("shared_data")}
    /\ \E k \in DOMAIN store[1] : store[1][k] = 1
    /\ store[2] # EmptyData

(***************************************************************************)
(* C14.  set and get called with a key that is not a string always raise   *)
(* the key-type error, and the stored data is the same after the failed    *)
(* call as before it.                                                      *)
(***************************************************************************)
\* C14: a set or get whose key is not a str ends with ValueError and leaves every
\* SharedState as it was
C14_NonStringKeyRaises ==
    [][(lastOp'.op \in {"set", "get"} /\ lastOp'.key.type # "str") =>
            (lastOp'.error = "ValueError" /\ store' = store)]_vars

C14_Witness ==
    /\ lastOp.op = "set"
    /\ lastOp.error = "ValueError"
    /\ lastOp.key = NoneKey
    /\ store[1] # EmptyData

(***************************************************************************)
(* C16.  Constructing a tool instance with a required field missing or a   *)
(* field of an incompatible type always raises the field-validation error  *)
(* and yields no instance; constructing it with valid input (defaults      *)
(* filling omitted optional fields) always yields an instance whose        *)
(* execute can be called at once.                                          *)
(***************************************************************************)
\* the keyword arguments of the MockTool construction just attempted leave `name` out,
\* or give `name` something that is not a str or `value` something that is not an int
BadMockKwargs(kwargs) ==
    \/ "name" \notin DOMAIN kwargs
    \/ kwargs["name"].type # "str"
    \/ "value" \in DOMAIN kwargs /\ kwargs["value"].type # "int"

\* a construction either raises and leaves the instances as they were, or adds one
\* instance holding the values given and 42 for an omitted `value`
C16_CreateStep ==
    (lastOp'.op = "Tool" /\ lastOp'.cls = MockTool) =>
        IF BadMockKwargs(lastOp'.kwargs)
        THEN /\ lastOp'.error = "ValidationError"
             /\ instances' = instances
        ELSE /\ lastOp'.error = ""
             /\ Len(instances') = Len(instances) + 1
             /\ SubSeq(instances', 1, Len(instances)) = instances
             /\ LET new == instances'[Len(instances')]
                 IN  /\ new.cls = MockTool
                     /\ new.fields["name"] = lastOp'.kwargs["name"]
                     /\ new.fields["value"] = (IF "value" \in DOMAIN lastOp'.kwargs
                                               THEN lastOp'.kwargs["value"]
                                               ELSE [type |-> "int", v |-> "42"])

\* run on an instance returns, with the text made of the instance's fields
C16_RunStep ==
    lastOp'.op = "run" =>
        /\ lastOp'.error = ""
        /\ lastOp'.instance \in 1..Len(instances)
        /\ instances' = instances
        /\ lastOp'.result.text[2] = instances[lastOp'.instance].fields["name"].v
        /\ lastOp'.result.text[4] = instances[lastOp'.instance].fields["value"].v

\* C16: every instantiation with a required field missing or a field of the wrong type
\* raises the validation error and adds no instance; every other instantiation adds an
\* instance with the values given and the defaults, and run on an instance returns
C16_ValidationOnConstruction == [][C16_CreateStep /\ C16_RunStep]_vars

C16_Witness ==
    /\ lastOp.op = "run"
    /\ lastOp.instance = Len(instances)
    /\ lastOp.result.text = <<"MockTool executed with name=", "test", ", value=", "42">>
    /\ Len(instances) = 2

(***************************************************************************)
(* C17.  Reasoning effort is attached to the agent, and to every outgoing  *)
(* request of a run, if and only if a reasoning level was supplied and the *)
(* model identifier starts with 'o'; in every other case it is omitted     *)
(* from every request.                                                     *)
(***************************************************************************)
\* the construction that made agent 1 supplied a level and named an o-series model
ReasoningApplies ==
    /\ lastOp.op = "Agent"
    /\ lastOp.reasoning # <<>>
    /\ Len(lastOp.model) >= 1
    /\ lastOp.model[1] = "o"

\* C17: the agent holds the effort level, and every request it sends carries it, exactly
\* when a level was supplied and the model starts with 'o'; otherwise the agent holds
\* NOT_GIVEN and every request omits it
C17_ReasoningOnlyForOSeries ==
    LET expected == IF ReasoningApplies THEN lastOp.reasoning ELSE <<>>
    IN  /\ agents[1].reasoning = expected
        /\ \A f \in Frames : \A i \in 1..Len(f.script) :
                f.script[i].request.reasoning = expected
        /\ HasEnded => \A i \in 1..Len(lastRun.script) :
                lastRun.script[i].request.reasoning = expected

C17_Witness ==
    /\ ReasoningApplies
    /\ HasEnded
    /\ VariantOf(lastRun) = "chat"
    /\ Len(lastRun.script) = 2
    /\ lastRun.script[2].request.reasoning = <<"high">>
    /\ lastRun.nexec >= 1

(***************************************************************************)
(* C15.  Verbose mode never alters control flow: for the same              *)
(* configuration, message and sequence of model responses, a run with      *)
(* verbose=True and a run with verbose=False issue the same remote calls,  *)
(* execute the same tools in the same order, build the same conversation   *)
(* and end with the same result or error.                                  *)
(*                                                                         *)
(* QuietRun is run with verbose False (every `if self.verbose` skipped) as *)
(* a function of the agent, the message and the responses of the remote    *)
(* model, for an agent whose tools are plain tools.  A run of the state    *)
(* machine, verbose or not, is compared with QuietRun on the responses it  *)
(* got: two runs that got the same responses then agree with each other.   *)
(***************************************************************************)
Outcome(end, value, error, messages, nexec, iter, requests) ==
    [ end |-> end, value |-> value, error |-> error, messages |-> messages,
      nexec |-> nexec, iter |-> iter, requests |-> requests ]

\* for output in response.output (agent.py), from item `output` on
RECURSIVE QuietOutput(_, _, _)
QuietOutput(response, output, o) ==
    IF output = <<>> THEN o
    ELSE IF Head(output).type = "message"
    THEN [o EXCEPT !.end = "returned",
                   !.messages = Append(o.messages,
                                       Entry("message", 0, NoTool, Head(output).text, <<>>)),
                   !.value = OrText(output_parsed(response.output),
                                    output_text(response.output))]
    ELSE IF Head(output).type = "function_call"
    THEN QuietOutput(response, Tail(output),
            [o EXCEPT !.messages =
                        o.messages \o
                            << FunctionCallMsg(Head(output)),
                               FunctionCallOutput(Head(output).call_id,
                                    PlainRun(Head(output).tool, Head(output).arguments)) >>,
                      !.nexec = o.nexec + 1])
    ELSE QuietOutput(response, Tail(output), o)

\* for tool_call in output.message.tool_calls (chat/agent.py)
RECURSIVE QuietToolCalls(_, _)
QuietToolCalls(tool_calls, o) ==
    IF tool_calls = <<>> THEN o
    ELSE QuietToolCalls(Tail(tool_calls),
            [o EXCEPT !.messages =
                        Append(o.messages,
                               ToolMessage(Head(tool_calls).id,
                                    PlainRun(Head(tool_calls).tool, Head(tool_calls).arguments))),
                      !.nexec = o.nexec + 1])

\* for output in response.choices (chat/agent.py)
RECURSIVE QuietChoices(_, _)
QuietChoices(choices, o) ==
    IF choices = <<>> THEN o
    ELSE LET message == Head(choices)
         IN  IF message.tool_calls # <<>>
             THEN QuietChoices(Tail(choices),
                    QuietToolCalls(message.tool_calls,
                        [o EXCEPT !.messages =
                            Append(o.messages,
                                   Entry("assistant", 0, NoTool, <<>>, message.tool_calls))]))
             ELSE IF message.parsed # None \/ message.content # <<>>
             THEN [o EXCEPT !.end = "returned",
                            !.messages =
                                Append(o.messages,
                                       Entry("assistant", 0, NoTool,
                                             IF message.content # <<>> THEN message.content
                                             ELSE Str(message.parsed[1]), <<>>)),
                            !.value = OrText(message.parsed, message.content)]
             ELSE [o EXCEPT !.end = "raised", !.error = "Unexpected response from OpenAI"]

\* for _ in range(self.max_tool_calls), from iteration o.iter on, the remote model
\* giving `responses`; the end is "none" when the responses run out first
RECURSIVE QuietLoop(_, _, _)
QuietLoop(a, responses, o) ==
    IF o.iter >= a.max_tool_calls
    THEN [o EXCEPT !.end = "returned", !.value = StrValue(Sentinel(a.max_tool_calls))]
    ELSE IF responses = <<>> THEN o
    ELSE LET r == Head(responses)
             sent == [o EXCEPT !.iter = o.iter + 1,
                               !.requests = Append(o.requests, Request(a, o.messages))]
         IN  IF r.failed
             THEN IF a.variant = "responses"
                  THEN [sent EXCEPT !.end = "returned", !.value = StrValue(ErrorString)]
                  ELSE [sent EXCEPT !.end = "raised", !.error = "OpenAI API call failed"]
             ELSE LET done == IF a.variant = "responses"
                              THEN QuietOutput(r, r.output, sent)
                              ELSE QuietChoices(r.choices, sent)
                  IN  IF done.end # "none" THEN done
                      ELSE QuietLoop(a, Tail(responses), done)

QuietRun(a, msg, responses) ==
    QuietLoop(a, responses,
              Outcome("none", StrValue(<<>>), "", InitialMessages(RoleText, msg), 0, 0, <<>>))

\* what the run r of the state machine did, in the same terms
OutcomeOf(r) ==
    Outcome(r.kind, r.value, r.error, r.messages, r.nexec, r.iter,
            [i \in 1..Len(r.script) |-> r.script[i].request])

ResponsesGot(r) == [i \in 1..Len(r.script) |-> r.script[i].response]

\* C15: every run that ended, verbose or not, sent the requests, executed the number of
\* tools, built the conversation and ended with the result or error that run with
\* verbose False gives on the responses it got; a quiet run printed nothing
C15_VerboseSameAsQuiet ==
    HasEnded =>
        /\ OutcomeOf(lastRun)
             = QuietRun(agents[lastRun.agent], lastRun.messages[2].content,
                        ResponsesGot(lastRun))
        /\ ~agents[lastRun.agent].verbose => lastRun.printed = <<>>

C15_Witness ==
    /\ HasEnded
    /\ agents[lastRun.agent].verbose
    /\ Len(lastRun.printed) = 4
    /\ lastRun.nexec = 2
    /\ Len(lastRun.script) = 2
    /\ lastRun.kind = "raised"

(***************************************************************************)
(* C18.  A nested agent run is one tool-execution step of the outer loop:  *)
(* each run counts its own iterations from zero against its own agent's    *)
(* max_tool_calls, and what happens inside an inner run consumes none of   *)
(* the outer run's budget: the outer run spends exactly one iteration per  *)
(* remote call of its own.                                                 *)
(***************************************************************************)
\* the activation counts its own remote calls, within its own agent's budget
CountsOwnCalls(f) ==
    /\ f.iter = Len(f.script)
    /\ f.iter <= agents[f.agent].max_tool_calls

\* a run starts: it counts from zero, and the activations below it keep their counts
C18_Start ==
    Len(stack') = Len(stack) + 1 =>
        /\ stack'[Len(stack')].iter = 0
        /\ stack'[Len(stack')].script = <<>>
        /\ \A i \in 1..Len(stack) :
                stack'[i].iter = stack[i].iter /\ stack'[i].script = stack[i].script

\* a step inside the innermost run: only that run can spend an iteration, and it spends
\* one exactly when it issues a remote call
C18_Inside ==
    (Len(stack') = Len(stack) /\ stack # <<>>) =>
        /\ \A i \in 1..(Len(stack) - 1) :
                stack'[i].iter = stack[i].iter /\ stack'[i].script = stack[i].script
        /\ LET before == stack[Len(stack)]
               after == stack'[Len(stack)]
           IN  \/ after.iter = before.iter /\ after.script = before.script
               \/ /\ after.iter = before.iter + 1
                  /\ Len(after.script) = Len(before.script) + 1
                  /\ SubSeq(after.script, 1, Len(before.script)) = before.script

\* a nested run ends: its caller goes on with the count it had
C18_End ==
    (Len(stack') < Len(stack) /\ stack' # <<>>) =>
        /\ Len(stack') = Len(stack) - 1
        /\ \A i \in 1..Len(stack') :
                stack'[i].iter = stack[i].iter /\ stack'[i].script = stack[i].script

\* C18: every run starts its count at zero and counts only its own remote calls against
\* its own agent's max_tool_calls; starting, running and ending a nested run leaves the
\* count of every run below it unchanged
C18_NestedRunOwnBudget ==
    [][/\ C18_Start
       /\ C18_Inside
       /\ C18_End
       /\ \A i \in 1..Len(stack') : CountsOwnCalls(stack'[i])
       /\ lastRun'.kind # "none" => CountsOwnCalls(lastRun')]_vars

\* the outer run is in its second and last iteration, the inner run has used up its
\* budget of one for the second time: four remote calls under an outer budget of two
C18_Witness ==
    /\ Len(stack) = 2
    /\ BudgetOf(stack[1]) = 2
    /\ stack[1].iter = 2
    /\ BudgetOf(stack[2]) = 1
    /\ stack[2].iter = 1
    /\ \E j \in 1..Len(stack[1].messages) :
            /\ stack[1].messages[j].type \in {"function_call_output", "tool"}
            /\ stack[1].messages[j].content
                 = <<"An answer could not be provided after ", "1", " tool calls.">>

(***************************************************************************)
(* C19.  At every remote call of a run the conversation sent is well       *)
(* formed: its first two entries are the system entry and the user entry,  *)
(* every tool-call request in it is followed by exactly one tool-output    *)
(* entry with the same call identifier, no tool-output entry lacks a       *)
(* preceding request, and it extends the conversation sent by the previous *)
(* remote call of the same run.                                            *)
(***************************************************************************)
\* the call identifiers the entry e requests
RequestedBy(e) ==
    IF e.type = "function_call" THEN {e.call_id}
    ELSE IF e.type = "assistant" THEN {e.tool_calls[j].id : j \in 1..Len(e.tool_calls)}
    ELSE {}

IsToolOutput(e) == e.type \in {"function_call_output", "tool"}

WellFormed(conv) ==
    /\ Len(conv) >= 2
    /\ conv[1].type = "system"
    /\ conv[2].type = "user"
    /\ \A p \in 3..Len(conv) : conv[p].type \notin {"system", "user"}
    /\ \A p \in 1..Len(conv) : \A c \in RequestedBy(conv[p]) :
            /\ Cardinality({q \in 1..Len(conv) :
                                IsToolOutput(conv[q]) /\ conv[q].call_id = c}) = 1
            /\ \E q \in (p + 1)..Len(conv) : IsToolOutput(conv[q]) /\ conv[q].call_id = c
    /\ \A q \in 1..Len(conv) :
            IsToolOutput(conv[q]) =>
                \E p \in 1..(q - 1) : conv[q].call_id \in RequestedBy(conv[p])

\* the conversations the run r sent, one per remote call
Conversations(r) == [i \in 1..Len(r.script) |-> r.script[i].request.input]

WellFormedCalls(r) ==
    /\ \A i \in 1..Len(r.script) : WellFormed(Conversations(r)[i])
    /\ \A i \in 2..Len(r.script) : IsPrefix(Conversations(r)[i - 1], Conversations(r)[i])
    /\ r.script # <<>> => IsPrefix(Conversations(r)[Len(r.script)], r.messages)

\* C19: every conversation a run has sent, in an active run or in the run that just
\* ended, is well formed and extends the one sent before it
C19_ConversationWellFormed ==
    /\ \A f \in Frames : WellFormedCalls(f)
    /\ HasEnded => WellFormedCalls(lastRun)

C19_Witness ==
    /\ HasEnded
    /\ VariantOf(lastRun) = "chat"
    /\ Len(lastRun.script) = 2
    /\ Len(Conversations(lastRun)[2]) = 6
    /\ Len(Conversations(lastRun)[2][3].tool_calls) = 1
    /\ lastRun.script[2].response.failed

(***************************************************************************)
(* C20.  The conversation belongs to one run call only: every run,         *)
(* whatever runs of the same agent came before it (answered, exhausted or  *)
(* failed), starts from a conversation holding exactly the system entry    *)
(* and the user entry of that call, so the first remote request of a run   *)
(* never carries entries of an earlier run.                                *)
(***************************************************************************)
\* the message the i-th activation was called with: the caller's, or the input of the
\* agent tool call its caller is executing
MessageOf(i) == IF i = 1 THEN <<"task">> ELSE CurrentCall(stack[i - 1]).arguments

Seed(msg) ==
    << [type |-> "system", call_id |-> 0, name |-> [name |-> "", agent |-> 0],
        content |-> <<"You are a helpful assistant.">>, tool_calls |-> <<>>],
       [type |-> "user", call_id |-> 0, name |-> [name |-> "", agent |-> 0],
        content |-> msg, tool_calls |-> <<>>] >>

\* the entries that start the conversation of the run that just ended
SeedOfLastRun == SubSeq(lastRun.messages, 1, 2)

\* C20: the conversation of every active run starts with the system entry and the user
\* entry of its own call, its first request carried exactly these two, and so did the
\* first request of the run that just ended
C20_FreshConversation ==
    /\ \A i \in 1..Len(stack) :
            /\ IsPrefix(Seed(MessageOf(i)), stack[i].messages)
            /\ stack[i].script = <<>> => stack[i].messages = Seed(MessageOf(i))
            /\ stack[i].script # <<>> =>
                    stack[i].script[1].request.input = Seed(MessageOf(i))
    /\ (HasEnded /\ lastRun.script # <<>>) =>
            /\ lastRun.script[1].request.input = SeedOfLastRun
            /\ SeedOfLastRun[1] = Seed(<<>>)[1]
            /\ SeedOfLastRun[2].type = "user"
            /\ lastRun.depth = 1 => SeedOfLastRun = Seed(<<"task">>)

\* a third run of the helmsman sends its first request, after a run of it that failed
\* and one that gave an answer or ran out of budget
C20_Witness ==
    /\ Len(stack) = 2
    /\ Len(stack[2].script) = 1
    /\ stack[2].script[1].request.input = Seed(<<"order">>)
    /\ \E j, k \in 1..Len(stack[1].messages) :
            /\ IsToolOutput(stack[1].messages[j])
            /\ stack[1].messages[j].content = <<"Error: OpenAI API call failed">>
            /\ IsToolOutput(stack[1].messages[k])
            /\ stack[1].messages[k].content
                 = <<"An answer could not be provided after ", "1", " tool calls.">>

(***************************************************************************)
(* C25.  The configuration-incompatibility error depends on the tool list  *)
(* being non-empty: a construction with a model of the disallowed family   *)
(* and a structured-output schema but an empty tool list (tools=[] as well *)
(* as tools omitted) succeeds.                                             *)
(***************************************************************************)
\* the construction just attempted passed no tool class: tools omitted, or tools=[]
NoToolsPassed == lastOp.tools = None \/ lastOp.tools = Some(<<>>)

\* C25: a construction with a 'gemini-' model and a structured-output schema that
\* passes no tool class raises no error and leaves an agent with an empty roster
C25_EmptyToolListAccepted ==
    (/\ lastOp.op = "Agent"
     /\ startswith(lastOp.model, Chars_gemini)
     /\ lastOp.output_format # NOT_GIVEN
     /\ NoToolsPassed)
        => /\ lastOp.error = ""
           /\ lastOp.agent = Len(agents)
           /\ agents[lastOp.agent].tools = <<>>

(***************************************************************************)
(* C27.  Creating a tool instance binds a fresh empty SharedState to the   *)
(* tool's class only when the class has none at that moment; when the      *)
(* class is already bound, by an agent or by an earlier instance, the      *)
(* instantiation leaves the binding and the stored data unchanged, so all  *)
(* instances of the class created afterwards share the one existing state. *)
(***************************************************************************)
\* the step created an instance
Created == Len(instances') = Len(instances) + 1

\* the class of the instance the step created
CreatedClass == instances'[Len(instances')].cls

C27_Unbound ==
    (Created /\ class_state[CreatedClass] = 0) =>
        /\ store' = Append(store, EmptyData)
        /\ class_state'[CreatedClass] = Len(store')
        /\ \A c \in ToolClasses \ {CreatedClass} : class_state'[c] = class_state[c]

C27_Bound ==
    (Created /\ class_state[CreatedClass] # 0) =>
        /\ store' = store
        /\ class_state' = class_state

\* the instances of one class share one state, and an earlier instance of the class
\* of a new instance sees the state it saw before
C27_Shared ==
    Created =>
        /\ \A i, j \in 1..Len(instances') :
                instances'[i].cls = instances'[j].cls =>
                    class_state'[instances'[i].cls] = class_state'[instances'[j].cls]
        /\ \A i \in 1..Len(instances) :
                instances[i].cls = CreatedClass =>
                    /\ class_state'[CreatedClass] = class_state[CreatedClass]
                    /\ store'[class_state'[CreatedClass]] = store[class_state[CreatedClass]]

\* C27: a step that creates an instance binds a fresh empty SharedState to the class
\* exactly when the class had none, and otherwise changes neither the bindings nor the
\* stored data; the earlier instances of the class keep the state they had
C27_BindOnlyWhenUnbound == [][C27_Unbound /\ C27_Bound /\ C27_Shared]_vars

\* a second instance of a class that an earlier instance bound and whose state holds
\* data by now, created after an agent that does not list the class
C27_Witness ==
    /\ Len(instances) = 2
    /\ Len(agents) = 1
    /\ instances[1].cls = instances[2].cls
    /\ instances[1].born = 0
    /\ instances[2].born = 1
    /\ class_state[instances[1].cls] # agents[1].shared_state
    /\ class_state[instances[1].cls] # 0
    /\ store[class_state[instances[1].cls]] # EmptyData
    /\ lastOp.op = "Tool"
    /\ lastOp.error = ""

(***************************************************************************)
(* C28.  A tool construction attempt that fails field validation has no    *)
(* effect: a class that had no SharedState before the failed attempt still *)
(* has none after it.                                                      *)
(***************************************************************************)
\* C28: a step in which the construction of a tool fails validation leaves the
\* bindings of the classes and the SharedStates as they were
C28_FailedConstructionNoEffect ==
    [][(lastOp'.op = "Tool" /\ lastOp'.error = "ValidationError")
            => (class_state' = class_state /\ store' = store)]_vars

(***************************************************************************)
(* C21.  There is no rollback on remote-call failure: when a remote call   *)
(* fails after earlier iterations of the same run executed tools that      *)
(* wrote to SharedState, every one of those writes is still present in the *)
(* agent's SharedState after run has returned the error string or raised.  *)
(***************************************************************************)
\* the write w of a counting tool is in the SharedStates st: the counter is at least
\* what w made it (later executions can only have raised it)
Present(w, st) ==
    /\ w.key \in DOMAIN st[w.sid]
    /\ st[w.sid][w.key] >= w.value

\* the step ends a run on a remote call that failed
EndsOnFailure ==
    /\ Len(stack') < Len(stack)
    /\ lastRun'.kind \in {"returned", "raised"}
    /\ lastRun'.script # <<>>
    /\ lastRun'.script[Len(lastRun'.script)].response.failed

C26_RosterBoundToOwnState ==
    /\ \A a \in 1..Len(agents) : \A c \in RosterSet(agents[a]) :
            class_state[c] = agents[a].shared_state
    /\ \A r \in Frames : \A i \in 1..Len(r.writes) :
            r.writes[i].sid = agents[r.agent].shared_state

\* the agent owns its roster: no agent constructed after it lists one of its classes
OwnsRoster(a) == \A c \in RosterSet(agents[a]) : LastListing(c) = a

\* C26 amended: every class of a roster is bound to the state of the last agent
\* constructed that lists it, constructions and runs never unbind it; every write of a
\* tool of an active run landed in the state of that last agent and is present there;
\* for an agent that owns its roster that state is its own, and all its classes share it
C26_RosterBoundToLastAgent ==
    /\ \A a \in 1..Len(agents) : \A c \in RosterSet(agents[a]) :
            class_state[c] = agents[LastListing(c)].shared_state
    /\ \A r \in Frames : \A i \in 1..Len(r.writes) :
            /\ r.writes[i].sid = agents[LastListing(CounterTool)].shared_state
            /\ Present(r.writes[i], store)
    /\ \A a \in 1..Len(agents) :
            OwnsRoster(a) =>
                /\ \A c \in RosterSet(agents[a]) : class_state[c] = agents[a].shared_state
                /\ \A r \in Frames : r.agent = a =>
                        \A i \in 1..Len(r.writes) :
                            r.writes[i].sid = agents[a].shared_state

\* in a run of the first agent its tool has written twice, into the state of the
\* second agent, which lists the same class, and the first agent's own state is empty
C26_Witness ==
    /\ Len(stack) = 1
    /\ Len(agents) = 2
    /\ stack[1].agent = 1
    /\ Len(stack[1].writes) = 2
    /\ stack[1].writes[1].sid = agents[2].shared_state
    /\ store[agents[1].shared_state] = EmptyData
    /\ Count(store[agents[2].shared_state]) >= 2

(***************************************************************************)
(* C22.  Validation and configuration errors are never swallowed: a        *)
(* field-validation error for a tool's arguments that arises while a run   *)
(* is in progress (including while the model's tool arguments are parsed   *)
(* into the tool class) always surfaces to the caller as a raised error;   *)
(* run never converts one into a returned string.                          *)
(***************************************************************************)
\* the remote calls of r during which a field-validation error arose
InvalidAt(r) ==
    {i \in 1..Len(r.script) :
        /\ r.script[i].response.failed
        /\ "error" \in DOMAIN r.script[i].response
        /\ r.script[i].response.error = "ValidationError"}

\* C22: a run during which a field-validation error arose for the arguments of a tool
\* call has ended by raising, never by returning a value
C22_ValidationErrorsRaised ==
    (HasEnded /\ InvalidAt(lastRun) # {}) => lastRun.kind = "raised"

(***************************************************************************)
(* C23.  Every run terminates, provided each remote call returns or fails, *)
(* each plain tool's execute returns and the agent-as-tool composition is  *)
(* acyclic: it ends in ANSWERED, in BUDGET_EXHAUSTED or in an error        *)
(* outcome after at most max_tool_calls remote calls of its own; with a    *)
(* cyclic composition and a model that always delegates, the nesting depth *)
(* grows without bound and the call budget never stops it.                 *)
(***************************************************************************)
\* the agents a run of agent a can start a run of, in at most n nested calls
RECURSIVE Callees(_, _)
Callees(a, n) ==
    IF n = 0 THEN {}
    ELSE LET direct == {b \in 1..Len(agents) : as_tool(b) \in RosterSet(agents[a])}
         IN  direct \cup UNION {Callees(b, n - 1) : b \in direct}

Cyclic == \E a \in 1..Len(agents) : a \in Callees(a, Len(agents))

\* how the run that just ended ended
Answered ==
    /\ lastRun.kind = "returned"
    /\ LastOf(lastRun.messages).type \in {"message", "assistant"}
    /\ LastOf(lastRun.messages).tool_calls = <<>>
BudgetExhausted ==
    /\ lastRun.kind = "returned"
    /\ lastRun.value = StrValue(Sentinel(BudgetOf(lastRun)))
    /\ lastRun.iter = BudgetOf(lastRun)
ErrorOutcome ==
    \/ lastRun.kind = "raised"
    \/ lastRun.kind = "returned" /\ lastRun.value = StrValue(ErrorString)

\* no run, active or ended, has issued more remote calls than its agent's max_tool_calls,
\* and a run that has ended ended in one of the three outcomes
WithinBudget ==
    /\ \A f \in Frames : Len(f.script) <= BudgetOf(f)
    /\ HasEnded =>
            /\ Len(lastRun.script) <= BudgetOf(lastRun)
            /\ Answered \/ BudgetExhausted \/ ErrorOutcome

\* the response is one call of an agent tool and nothing else
Delegation(variant, r) ==
    /\ OneToolCall(variant, r)
    /\ IF variant = "responses" THEN r.output[1].tool.agent # 0
       ELSE r.choices[1].tool_calls[1].tool.agent # 0

\* the model answered every remote call of the run r with a delegation, and no run that
\* r started has come back
DelegatedOnly(r) ==
    /\ \A i \in 1..Len(r.script) : Delegation(VariantOf(r), r.script[i].response)
    /\ \A j \in 1..Len(r.messages) : r.messages[j].type \notin {"function_call_output", "tool"}

\* so far the model has always delegated
AlwaysDelegated ==
    /\ stack # <<>>
    /\ \A f \in Frames : DelegatedOnly(f)

\* a run of a cyclic composition ends only after a response that is not a delegation,
\* received by the run itself or, earlier, by a run it started
EndsOffScript ==
    (Cyclic /\ Len(stack') < Len(stack)) => ~DelegatedOnly(lastRun')

\* every active run but the innermost waits in its first iteration for the run it
\* started, and no run has ended
OnlyDeeper ==
    /\ lastRun.kind = "none"
    /\ \A i \in 1..(Len(stack) - 1) :
            /\ stack[i].pc = "run_tool"
            /\ stack[i].iter = 1
            /\ stack[i].iter <= BudgetOf(stack[i])
    /\ stack[Len(stack)].iter <= 1

\* C23: with an acyclic composition every run that starts comes to an end, within its
\* agent's max_tool_calls remote calls and in one of the three outcomes; with a cyclic
\* composition and a model that always delegates no run ever ends: each run starts the
\* next one in its first iteration, and a run ends only after some other response
C23_Termination ==
    /\ [](~Cyclic => WithinBudget)
    /\ (~Cyclic /\ stack # <<>>) ~> (stack = <<>>)
    /\ []((Cyclic /\ AlwaysDelegated) => OnlyDeeper)
    /\ [][EndsOffScript]_vars

\* a cyclic composition nested as deep as the bound lets it, deeper than the budget of
\* its agents, every waiting run in its first iteration
C23_Witness ==
    /\ Cyclic
    /\ AlwaysDelegated
    /\ Len(stack) = MaxDepth
    /\ Len(stack) > BudgetOf(stack[1])
    /\ \A i \in 1..(Len(stack) - 1) : stack[i].iter = 1

(***************************************************************************)
(* C24.  The responses variant and the chat variant implement the same     *)
(* transition algorithm: given the same configuration, message and         *)
(* sequence of model responses (each response being one answer or a list   *)
(* of tool calls, with no remote failure), both issue the same number of   *)
(* remote calls, execute the same tools in the same order with the same    *)
(* arguments, and return the same result.                                  *)
(***************************************************************************)
\* the response is one answer, or a list of tool calls, in the shape of its variant;
\* a chat message without tool calls is the answer, whatever its content
IsAnswer(variant, r) ==
    /\ ~r.failed
    /\ IF variant = "responses"
       THEN Len(r.output) = 1 /\ r.output[1].type = "message"
       ELSE Len(r.choices) = 1 /\ r.choices[1].tool_calls = <<>>

IsToolCallList(variant, r) ==
    /\ ~r.failed
    /\ IF variant = "responses"
       THEN /\ r.output # <<>>
            /\ \A i \in 1..Len(r.output) : r.output[i].type = "function_call"
       ELSE /\ Len(r.choices) = 1
            /\ r.choices[1].tool_calls # <<>>
            /\ r.choices[1].parsed = None
            /\ r.choices[1].content = <<>>

\* the same response in the shape of the other variant: only the fields are mapped
Mapped(variant, r) ==
    IF variant = "responses"
    THEN [failed |-> FALSE,
          choices |-> IF IsAnswer(variant, r)
                      THEN <<Choice(<<>>, r.output[1].text, r.output[1].parsed)>>
                      ELSE <<Choice([i \in 1..Len(r.output) |->
                                        ToolCall(r.output[i].call_id, r.output[i].tool,
                                                 r.output[i].arguments)],
                                    <<>>, None)>>]
    ELSE [failed |-> FALSE,
          output |-> IF IsAnswer(variant, r)
                     THEN <<MessageItem(r.choices[1].content, r.choices[1].parsed)>>
                     ELSE [i \in 1..Len(r.choices[1].tool_calls) |->
                            Item("function_call", r.choices[1].tool_calls[i].id,
                                 r.choices[1].tool_calls[i].tool,
                                 r.choices[1].tool_calls[i].arguments, <<>>, None)]]

OtherVariant(variant) == IF variant = "responses" THEN "chat" ELSE "responses"

\* the tools a conversation shows to have been called, in order, with their arguments
Executions(messages) ==
    Concat([i \in 1..Len(messages) |->
              IF messages[i].type = "function_call"
              THEN <<[tool |-> messages[i].name, arguments |-> messages[i].content]>>
              ELSE IF messages[i].type = "assistant"
                   THEN [j \in 1..Len(messages[i].tool_calls) |->
                            [tool |-> messages[i].tool_calls[j].tool,
                             arguments |-> messages[i].tool_calls[j].arguments]]
                   ELSE <<>>], Len(messages))

\* every response the run r got is one answer or a list of tool calls
PlainResponses(r) ==
    \A i \in 1..Len(r.script) :
        \/ IsAnswer(VariantOf(r), r.script[i].response)
        \/ IsToolCallList(VariantOf(r), r.script[i].response)

\* what the other variant does with the same configuration, message and responses
Twin(r) ==
    QuietRun([agents[r.agent] EXCEPT !.variant = OtherVariant(VariantOf(r))],
             r.messages[2].content,
             [i \in 1..Len(r.script) |-> Mapped(VariantOf(r), r.script[i].response)])

\* C24: a run of either variant that got only answers and lists of tool calls ended as
\* the other variant ends on the same responses: the same number of remote calls, the
\* same tools executed in the same order with the same arguments, the same result
C24_VariantsAgree ==
    (HasEnded /\ PlainResponses(lastRun)) =>
        /\ Twin(lastRun).end = lastRun.kind
        /\ Twin(lastRun).value = lastRun.value
        /\ Twin(lastRun).error = lastRun.error
        /\ Twin(lastRun).iter = lastRun.iter
        /\ Len(Twin(lastRun).requests) = Len(lastRun.script)
        /\ Twin(lastRun).nexec = lastRun.nexec
        /\ Executions(Twin(lastRun).messages) = Executions(lastRun.messages)
        /\ Len(Executions(lastRun.messages)) = lastRun.nexec

====
